---- MODULE Spec2Model ----
(***************************************************************************)
(* meez3d: the ray projector (Level::project / project2), the player       *)
(* controller (Level::update, can_move_to), the frame composer             *)
(* (Level::draw) and the draw batch (SpriteBatch) as state machines.       *)
(*                                                                         *)
(* f32 values are binary floating-point numbers of reduced width: a value  *)
(* is an integer count of units of 2^-FracBits carrying at most MantBits   *)
(* significant bits, and every arithmetic operation rounds its exact       *)
(* result to the nearest such value, ties to even, as IEEE 754 does.       *)
(***************************************************************************)
EXTENDS Integers, Sequences, FiniteSets, TLC

----------------------------------------------------------------------------
(* f32 *)

MantBits == 18
FracBits == 20

Pow2(k) == 2 ^ k
Abs(v) == IF v < 0 THEN -v ELSE v
Sgn(v) == IF v < 0 THEN -1 ELSE 1
Max(a, b) == IF a >= b THEN a ELSE b
\* the element of a one-element set: Only({F(v) : v \in {e}}) is F(e) with e
\* computed once
Only(S) == CHOOSE v \in S : TRUE

RECURSIVE BitLen(_)
\* the number of bits of v >= 0
BitLen(v) ==
    IF v >= 65536 THEN 16 + BitLen(v \div 65536)
    ELSE IF v >= 256 THEN 8 + BitLen(v \div 256)
    ELSE IF v >= 16 THEN 4 + BitLen(v \div 16)
    ELSE IF v >= 4 THEN 2 + BitLen(v \div 4)
    ELSE IF v >= 2 THEN 2
    ELSE v

\* v >= 0 counts units of 2^-(FracBits + g); sticky: a nonzero part below v
\* was dropped.  The nearest representable value, ties to even.
RoundV(v, g, sticky) ==
    LET k == Max(Max(g, BitLen(v) - MantBits), 0) IN
    IF k = 0 THEN v * Pow2(-g)
    ELSE LET q    == v \div Pow2(k)
             rem  == v % Pow2(k)
             half == Pow2(k - 1)
             up   == IF rem > half \/ (rem = half /\ (sticky \/ q % 2 = 1))
                     THEN 1 ELSE 0
         IN  (q + up) * Pow2(k - g)

FAdd(a, b) == Sgn(a + b) * RoundV(Abs(a + b), 0, FALSE)
FSub(a, b) == FAdd(a, -b)
FNeg(a) == -a

\* the exponent of the last significant bit of a representable value
ExpOf(a) == Max(BitLen(a) - MantBits, 0)
HalfBits == MantBits \div 2

FMulAbs(a, b) ==
    LET ea == ExpOf(a)
        eb == ExpOf(b)
        ma == a \div Pow2(ea)
        mb == b \div Pow2(eb)
        bh == mb \div Pow2(HalfBits)
        bl == mb % Pow2(HalfBits)
        p0 == ma * bl
        hi == ma * bh + (p0 \div Pow2(HalfBits))
        lo == p0 % Pow2(HalfBits)
        g  == FracBits - ea - eb
    IN  IF hi < Pow2(MantBits)
        THEN RoundV(hi * Pow2(HalfBits) + lo, g, FALSE)
        ELSE RoundV(hi, g - HalfBits, lo # 0)

FMul(a, b) ==
    IF a = 0 \/ b = 0 THEN 0 ELSE Sgn(a) * Sgn(b) * FMulAbs(Abs(a), Abs(b))

RECURSIVE LongDiv(_, _, _, _)
\* n more quotient bits of r / d, r < 2 d: <<quotient, remainder # 0>>
LongDiv(r, d, n, q) ==
    IF n = 0 THEN <<q, r # 0>>
    ELSE IF r >= d THEN LongDiv(2 * (r - d), d, n - 1, 2 * q + 1)
         ELSE LongDiv(2 * r, d, n - 1, 2 * q)

\* the nearest representable value to num / den, for num, den > 0
RoundRat(num, den) ==
    LET ln == BitLen(num)
        ld == BitLen(den)
        nn == IF ln <= 29 THEN num * Pow2(29 - ln) ELSE num \div Pow2(ln - 29)
        dd == IF ld <= 29 THEN den * Pow2(29 - ld) ELSE den \div Pow2(ld - 29)
        qr == LongDiv(nn, dd, MantBits + 3, 0)
    IN  RoundV(qr[1], (MantBits + 2) - (ln - ld) - FracBits, qr[2])

FDiv(a, b) == IF a = 0 THEN 0 ELSE Sgn(a) * Sgn(b) * RoundRat(Abs(a), Abs(b))

\* a decimal literal num / den, converted to the nearest f32
F32(num, den) == FDiv(num, den)

RECURSIVE SqrtBits(_, _, _, _, _)
\* the square root, bit by bit, of n followed by `zeros` pairs of 0 bits; i
\* pairs of bits of n are still to come: <<root, remainder # 0>>
SqrtBits(n, i, zeros, root, rem) ==
    IF i = 0 /\ zeros = 0 THEN <<root, rem # 0>>
    ELSE IF 4 * rem + (IF i > 0 THEN (n \div Pow2(2 * (i - 1))) % 4 ELSE 0)
               >= 4 * root + 1
    THEN SqrtBits(n, Max(i - 1, 0), IF i > 0 THEN zeros ELSE zeros - 1,
                  2 * root + 1,
                  4 * rem + (IF i > 0 THEN (n \div Pow2(2 * (i - 1))) % 4 ELSE 0)
                     - (4 * root + 1))
    ELSE SqrtBits(n, Max(i - 1, 0), IF i > 0 THEN zeros ELSE zeros - 1,
                  2 * root,
                  4 * rem + (IF i > 0 THEN (n \div Pow2(2 * (i - 1))) % 4 ELSE 0))

\* f32::sqrt of a >= 0
FSqrt(a) ==
    IF a <= 0 THEN 0
    ELSE LET odd   == FracBits % 2
             n     == a * Pow2(odd)
             pairs == (BitLen(n) + 1) \div 2
             qr    == SqrtBits(n, pairs, MantBits + 2 - pairs, 0, 0)
         IN  RoundV(qr[1],
                    (FracBits + odd) \div 2 + (MantBits + 2 - pairs) - FracBits,
                    qr[2])

\* `n as f32` for a small integer n
IntToF(n) == n * Pow2(FracBits)
\* `v as usize`: truncates, and saturates at 0
AsUsize(v) == IF v <= 0 THEN 0 ELSE v \div Pow2(FracBits)
\* `v as i32`: truncates towards zero
AsI32(v) == Sgn(v) * (Abs(v) \div Pow2(FracBits))
\* `v as u8`: truncates, and saturates at 0 and 255
AsU8(v) == IF v <= 0 THEN 0
           ELSE IF v >= IntToF(255) THEN 255 ELSE v \div Pow2(FracBits)
\* f32::clamp
Clamp(v, lo, hi) == Only({IF w < lo THEN lo ELSE IF w > hi THEN hi ELSE w : w \in {v}})

One == IntToF(1)
\* the largest representable value below a > 0
Pred(a) == a - Pow2(ExpOf(a - 1))

----------------------------------------------------------------------------
(* f32::sin, f32::cos, f32::tan: a sine table of step 2^-9 on [0, pi/2],   *)
(* in units of 2^-20, read with linear interpolation.                      *)

TrigUnit == 2 ^ 20
TableStep == 2 ^ 11
HalfPiT == 1647099
PiT == 3294199
TwoPiT == 6588397

SinTable ==
    << 0, 2048, 4096, 6144, 8192, 10240, 12288, 14336, 16383, 18431, 20479, 22526,
       24574, 26621, 28668, 30716, 32763, 34810, 36856, 38903, 40950, 42996, 45042, 47088,
       49134, 51180, 53225, 55270, 57315, 59360, 61405, 63449, 65493, 67537, 69581, 71624,
       73667, 75710, 77753, 79795, 81837, 83878, 85920, 87961, 90001, 92041, 94081, 96121,
       98160, 100199, 102237, 104275, 106313, 108350, 110387, 112423, 114459, 116495, 118530, 120565,
       122599, 124633, 126666, 128699, 130731, 132763, 134794, 136825, 138855, 140885, 142914, 144942,
       146970, 148998, 151025, 153051, 155077, 157102, 159127, 161151, 163174, 165197, 167219, 169240,
       171261, 173281, 175301, 177320, 179338, 181355, 183372, 185388, 187404, 189418, 191432, 193446,
       195458, 197470, 199481, 201491, 203500, 205509, 207517, 209524, 211530, 213536, 215541, 217544,
       219547, 221550, 223551, 225551, 227551, 229550, 231548, 233545, 235541, 237536, 239530, 241524,
       243516, 245508, 247498, 249488, 251477, 253464, 255451, 257437, 259422, 261406, 263389, 265370,
       267351, 269331, 271310, 273288, 275264, 277240, 279214, 281188, 283160, 285132, 287102, 289071,
       291039, 293006, 294972, 296937, 298901, 300863, 302824, 304784, 306743, 308701, 310658, 312613,
       314568, 316521, 318473, 320423, 322373, 324321, 326268, 328214, 330158, 332101, 334043, 335984,
       337923, 339861, 341798, 343734, 345668, 347601, 349532, 351462, 353391, 355319, 357245, 359170,
       361093, 363015, 364936, 366855, 368773, 370689, 372604, 374518, 376430, 378341, 380250, 382158,
       384065, 385970, 387873, 389775, 391676, 393575, 395472, 397368, 399263, 401155, 403047, 404937,
       406825, 408712, 410597, 412481, 414363, 416243, 418122, 420000, 421876, 423750, 425622, 427493,
       429362, 431230, 433096, 434960, 436823, 438684, 440543, 442401, 444257, 446111, 447964, 449814,
       451664, 453511, 455357, 457201, 459043, 460883, 462722, 464559, 466394, 468227, 470059, 471889,
       473717, 475543, 477367, 479190, 481011, 482829, 484646, 486462, 488275, 490086, 491896, 493704,
       495510, 497314, 499116, 500916, 502714, 504510, 506305, 508097, 509888, 511676, 513463, 515248,
       517030, 518811, 520590, 522367, 524142, 525914, 527685, 529454, 531221, 532985, 534748, 536509,
       538267, 540024, 541778, 543531, 545281, 547029, 548776, 550520, 552262, 554001, 555739, 557475,
       559208, 560940, 562669, 564396, 566121, 567844, 569564, 571283, 572999, 574713, 576425, 578135,
       579842, 581548, 583251, 584951, 586650, 588346, 590041, 591732, 593422, 595109, 596794, 598477,
       600158, 601836, 603512, 605186, 606857, 608526, 610193, 611857, 613519, 615179, 616836, 618491,
       620144, 621794, 623442, 625087, 626730, 628371, 630009, 631645, 633279, 634910, 636539, 638165,
       639789, 641410, 643029, 644646, 646260, 647871, 649480, 651087, 652691, 654293, 655892, 657488,
       659082, 660674, 662263, 663850, 665434, 667015, 668594, 670171, 671744, 673316, 674884, 676451,
       678014, 679575, 681133, 682689, 684242, 685793, 687341, 688886, 690429, 691969, 693506, 695041,
       696573, 698103, 699630, 701154, 702675, 704194, 705710, 707224, 708734, 710242, 711748, 713250,
       714750, 716247, 717742, 719233, 720722, 722208, 723692, 725172, 726650, 728125, 729598, 731067,
       732534, 733998, 735459, 736918, 738373, 739826, 741276, 742723, 744167, 745609, 747047, 748483,
       749916, 751346, 752773, 754197, 755619, 757037, 758453, 759865, 761275, 762682, 764086, 765487,
       766885, 768281, 769673, 771062, 772449, 773832, 775213, 776591, 777965, 779337, 780706, 782071,
       783434, 784794, 786150, 787504, 788855, 790203, 791547, 792889, 794228, 795563, 796896, 798226,
       799552, 800876, 802196, 803513, 804828, 806139, 807447, 808752, 810054, 811353, 812649, 813942,
       815231, 816518, 817801, 819081, 820358, 821632, 822903, 824171, 825436, 826697, 827955, 829210,
       830462, 831711, 832957, 834199, 835438, 836674, 837907, 839137, 840363, 841587, 842807, 844024,
       845237, 846448, 847655, 848859, 850060, 851257, 852451, 853642, 854830, 856014, 857195, 858373,
       859548, 860719, 861887, 863052, 864214, 865372, 866527, 867678, 868827, 869972, 871113, 872252,
       873387, 874518, 875647, 876772, 877893, 879012, 880126, 881238, 882346, 883451, 884553, 885651,
       886745, 887837, 888925, 890009, 891091, 892168, 893243, 894314, 895381, 896445, 897506, 898563,
       899617, 900668, 901715, 902758, 903798, 904835, 905868, 906898, 907924, 908947, 909967, 910982,
       911995, 913004, 914009, 915011, 916010, 917005, 917996, 918984, 919969, 920950, 921927, 922901,
       923871, 924838, 925802, 926762, 927718, 928671, 929620, 930566, 931508, 932446, 933381, 934313,
       935241, 936165, 937086, 938003, 938917, 939827, 940733, 941636, 942535, 943431, 944323, 945211,
       946096, 946977, 947855, 948729, 949599, 950466, 951329, 952189, 953045, 953897, 954746, 955591,
       956432, 957270, 958104, 958934, 959761, 960584, 961403, 962219, 963031, 963839, 964644, 965445,
       966242, 967036, 967826, 968612, 969395, 970174, 970949, 971720, 972488, 973252, 974012, 974769,
       975522, 976271, 977017, 977758, 978496, 979231, 979961, 980688, 981411, 982130, 982846, 983558,
       984266, 984970, 985671, 986368, 987061, 987750, 988435, 989117, 989795, 990469, 991140, 991806,
       992469, 993128, 993783, 994435, 995082, 995726, 996366, 997003, 997635, 998264, 998889, 999510,
       1000127, 1000740, 1001350, 1001956, 1002558, 1003156, 1003750, 1004341, 1004927, 1005510, 1006089, 1006664,
       1007236, 1007803, 1008367, 1008927, 1009483, 1010035, 1010583, 1011127, 1011668, 1012204, 1012737, 1013266,
       1013791, 1014312, 1014830, 1015343, 1015853, 1016358, 1016860, 1017358, 1017852, 1018342, 1018829, 1019311,
       1019790, 1020264, 1020735, 1021202, 1021665, 1022124, 1022579, 1023030, 1023478, 1023921, 1024361, 1024796,
       1025228, 1025656, 1026080, 1026500, 1026916, 1027328, 1027736, 1028141, 1028541, 1028937, 1029330, 1029719,
       1030103, 1030484, 1030861, 1031234, 1031603, 1031968, 1032329, 1032686, 1033039, 1033388, 1033734, 1034075,
       1034413, 1034746, 1035076, 1035401, 1035723, 1036041, 1036354, 1036664, 1036970, 1037272, 1037570, 1037864,
       1038154, 1038440, 1038722, 1039000, 1039274, 1039544, 1039811, 1040073, 1040331, 1040586, 1040836, 1041082,
       1041325, 1041563, 1041798, 1042028, 1042255, 1042477, 1042696, 1042910, 1043121, 1043328, 1043530, 1043729,
       1043924, 1044114, 1044301, 1044484, 1044663, 1044837, 1045008, 1045175, 1045338, 1045497, 1045652, 1045802,
       1045949, 1046092, 1046231, 1046366, 1046497, 1046624, 1046747, 1046866, 1046981, 1047091, 1047198, 1047301,
       1047400, 1047495, 1047586, 1047673, 1047756, 1047835, 1047910, 1047981, 1048048, 1048111, 1048170, 1048225,
       1048276, 1048323, 1048366, 1048405, 1048440, 1048471, 1048498, 1048521, 1048540, 1048555, 1048566, 1048573,
       1048576, 1048575, 1048570 >>

\* sin of t / TrigUnit for 0 <= t <= HalfPiT
SinQ(t) ==
    LET i  == t \div TableStep
        f  == t % TableStep
        s0 == SinTable[i + 1]
        s1 == SinTable[i + 2]
    IN  s0 + ((s1 - s0) * f + TableStep \div 2) \div TableStep

SinT(t) ==
    LET r == t % TwoPiT IN
    IF r <= HalfPiT THEN SinQ(r)
    ELSE IF r <= PiT THEN SinQ(PiT - r)
    ELSE IF r <= PiT + HalfPiT THEN -SinQ(r - PiT)
    ELSE -SinQ(TwoPiT - r)

CosT(t) == SinT(t + HalfPiT)

\* an f32 angle in table units
ToT(a) == IF FracBits >= 20 THEN a \div Pow2(FracBits - 20)
          ELSE a * Pow2(20 - FracBits)

\* a table value, in units of 2^-20, rounded to f32
FromT(s) == Sgn(s) * RoundV(Abs(s), 20 - FracBits, FALSE)
Sin(a) == FromT(SinT(ToT(a)))
Cos(a) == FromT(CosT(ToT(a)))
Tan(a) == FDiv(SinT(ToT(a)), CosT(ToT(a)))

RECURSIVE ArcSearch(_, _, _, _)
\* the angle t in lo .. hi, in table units, where tan t passes ay / ax
ArcSearch(ay, ax, lo, hi) ==
    IF hi - lo <= 1 THEN lo
    ELSE IF FMul(FromT(SinT((lo + hi) \div 2)), ax)
               <= FMul(FromT(CosT((lo + hi) \div 2)), ay)
    THEN ArcSearch(ay, ax, (lo + hi) \div 2, hi)
    ELSE ArcSearch(ay, ax, lo, (lo + hi) \div 2)

\* a table angle as an f32 angle
AngleFromT(t) == Sgn(t) * RoundV(Abs(t), 20 - FracBits, FALSE)

\* f32::atan2: y.atan2(x), in [-PI, PI]
atan2(y, x) ==
    IF x = 0 /\ y = 0 THEN 0
    ELSE Only({ IF x >= 0 THEN Sgn(y) * AngleFromT(t)
                ELSE Sgn(y) * AngleFromT(PiT - t)
                : t \in {ArcSearch(Abs(y), Abs(x), 0, HalfPiT)} })

----------------------------------------------------------------------------
(* constants *)

\* std::f32::consts
PI == F32(103993, 33102)
FRAC_PI_2 == F32(103993, 66204)
TAU == F32(207986, 33102)

TOLERANCE == F32(1, 10000)
PLAYER_SIZE == F32(8, 10)
MOVE_SPEED == F32(5, 100)
TURN_SPEED == F32(2, 100)

\* 3.0 * FRAC_PI_2
THREE_FRAC_PI_2 == FMul(IntToF(3), FRAC_PI_2)

float_eq(f1, f2) == Abs(FSub(f2, f1)) < TOLERANCE

----------------------------------------------------------------------------
(* Color, Tile, Map *)

Color(r, g, b, a) == [r |-> r, g |-> g, b |-> b, a |-> a]
\* Color::from_str("#ffffff"), the border colour of create_random_map
BorderColor == Color(255, 255, 255, 255)
\* a colour drawn by create_random_row for an interior wall
WallColor == Color(200, 40, 40, 255)
NoColor == Color(0, 0, 0, 0)

Empty == [kind |-> "Empty", color |-> NoColor]
Solid(color) == [kind |-> "Solid", color |-> color]

Width == 5
Height == 5

Cell(r, c) == [row |-> r, column |-> c]
Cells(w, h) == {Cell(r, c) : r \in 0 .. h - 1, c \in 0 .. w - 1}
IsBorder(w, h, cell) ==
    cell.row = 0 \/ cell.row = h - 1 \/ cell.column = 0 \/ cell.column = w - 1
BorderCells(w, h) == {cell \in Cells(w, h) : IsBorder(w, h, cell)}
InteriorCells(w, h) == Cells(w, h) \ BorderCells(w, h)

\* a w x h map: the border ring Solid(BorderColor) except at `holes`, the
\* interior Empty except for the Solid(WallColor) tiles at `walls`
MakeMap(w, h, holes, walls) ==
    [tiles  |-> [r \in 0 .. h - 1 |-> [c \in 0 .. w - 1 |->
                    IF Cell(r, c) \in walls THEN Solid(WallColor)
                    ELSE IF IsBorder(w, h, Cell(r, c)) /\ Cell(r, c) \notin holes
                         THEN Solid(BorderColor)
                         ELSE Empty]],
     width  |-> w,
     height |-> h]

InGrid(m, r, c) == 0 <= r /\ r < m.height /\ 0 <= c /\ c < m.width
IsSolid(m, r, c) == m.tiles[r][c].kind = "Solid"
IsEmpty(m, r, c) == m.tiles[r][c].kind = "Empty"
\* self.map.tiles[r][c]: an index out of range panics
TileAt(m, r, c) ==
    IF InGrid(m, r, c) THEN m.tiles[r][c] ELSE [kind |-> "Panic", color |-> NoColor]
HasSolidBorder(m) ==
    \A cell \in BorderCells(m.width, m.height) : IsSolid(m, cell.row, cell.column)

----------------------------------------------------------------------------
(* Level::project, Level::project2 *)

\* the recursion depth at which the call stack is exhausted
StackLimit == 12

NoPath == [some |-> FALSE, cells |-> <<>>]
SomePath == [some |-> TRUE, cells |-> <<>>]
PathPush(path, r, c) ==
    IF path.some THEN [path EXCEPT !.cells = Append(@, Cell(r, c))] ELSE path

NoHit == [x |-> 0, y |-> 0, color |-> NoColor, normal |-> 0]
\* a project2 frame: the arguments of the call (angle .. path); pc is "call"
\* while the call is pending, then "some" / "none" for what the cast returned,
\* "panic" for an index panic, "overflow" for an exhausted stack; depth counts
\* the nested calls.  prev_row, prev_column (the cell of the calling frame),
\* to_row, to_column (the cell a None cast stepped to) and start_x, start_y
\* only record the walk.
Idle ==
    [pc |-> "idle", angle |-> 0, row |-> 0, column |-> 0, x |-> 0, y |-> 0,
     normal |-> 0, path |-> NoPath, depth |-> 0, prev_row |-> 0,
     prev_column |-> 0, to_row |-> 0, to_column |-> 0, start_x |-> 0,
     start_y |-> 0, hit |-> NoHit]

\* `return None`, the walk having stepped to (row, column)
ReturnNone(f, row, column) ==
    [f EXCEPT !.pc = "none", !.to_row = row, !.to_column = column]

\* a ReturnSome that builds the hit point from the offset alone
ReturnSome_OffsetOnly(f, color) ==
    [f EXCEPT !.pc = "some",
              !.hit = [x |-> f.x, y |-> f.y, color |-> color,
                       normal |-> f.normal]]

\* `return Some(Projection { .. })`
ReturnSome(f, color) ==
    [f EXCEPT !.pc = "some",
              !.hit = [x      |-> FAdd(IntToF(f.column), f.x),
                       y      |-> FAdd(IntToF(f.row), f.y),
                       color  |-> color,
                       normal |-> f.normal]]

\* a Recurse that passes the caller's normal on unchanged
Recurse_KeepNormal(f, row, column, x, y, normal) ==
    IF row < 0 \/ column < 0 THEN [f EXCEPT !.pc = "panic"]
    ELSE IF f.depth >= StackLimit THEN [f EXCEPT !.pc = "overflow"]
    ELSE [f EXCEPT !.row = row, !.column = column, !.x = x, !.y = y,
                   !.depth = @ + 1,
                   !.prev_row = f.row, !.prev_column = f.column]

\* the nested call self.project2(angle, row, column, x, y, normal, path): one
\* more stack frame; a usize that would go below 0 panics
Recurse(f, row, column, x, y, normal) ==
    IF row < 0 \/ column < 0 THEN [f EXCEPT !.pc = "panic"]
    ELSE IF f.depth >= StackLimit THEN [f EXCEPT !.pc = "overflow"]
    ELSE [f EXCEPT !.row = row, !.column = column, !.x = x, !.y = y,
                   !.normal = normal, !.depth = @ + 1,
                   !.prev_row = f.row, !.prev_column = f.column]

\* the odd angles pointing downish: angle < PI
ProjectDown(f) ==
    LET tan         == Tan(f.angle)
        x_intercept == FAdd(f.x, FDiv(FSub(One, f.y), tan))
    IN
    IF x_intercept < 0
    THEN IF f.column = 0 THEN ReturnNone(f, f.row, f.column - 1)
         ELSE LET y_intercept ==
                      FSub(One, FAdd(FSub(One, f.y), FMul(f.x, tan)))
              IN  Recurse(f, f.row, f.column - 1, One, y_intercept, 0)
    ELSE IF x_intercept < One
    THEN Recurse(f, f.row + 1, f.column, x_intercept, 0, THREE_FRAC_PI_2)
    ELSE LET y_intercept == FAdd(f.y, FMul(FSub(One, f.x), tan))
         IN  Recurse(f, f.row, f.column + 1, 0, y_intercept, PI)

\* the odd angles pointing upish
ProjectUp(f) ==
    LET up_angle    == FSub(TAU, f.angle)
        tan         == Tan(up_angle)
        x_intercept == FAdd(f.x, FDiv(f.y, tan))
    IN
    IF x_intercept < 0
    THEN IF f.column = 0 THEN ReturnNone(f, f.row, f.column - 1)
         ELSE LET y_intercept ==
                      FSub(One, FSub(FSub(One, f.y), FMul(f.x, tan)))
              IN  Recurse(f, f.row, f.column - 1, One, y_intercept, 0)
    ELSE IF x_intercept < One
    THEN IF f.row = 0 THEN ReturnNone(f, f.row - 1, f.column)
         ELSE Recurse(f, f.row - 1, f.column, x_intercept, One, FRAC_PI_2)
    ELSE LET y_intercept == FSub(f.y, FMul(FSub(One, f.x), tan))
         IN  Recurse(f, f.row, f.column + 1, 0, y_intercept, PI)

\* "Check out of bounds."
OutOfBounds(m, f) == f.row >= m.height \/ f.column >= m.width

\* a RecordPath whose push also clears the normal of the frame
RecordPath_Clobber(f) ==
    [f EXCEPT !.path = PathPush(@, f.row, f.column),
              !.normal = IF f.path.some THEN 0 ELSE @]

\* `path.push(PathIndex { row, column })` when a path was asked for
RecordPath(f) == [f EXCEPT !.path = PathPush(@, f.row, f.column)]

\* one call of project2 on the frame f: it returns, or makes the nested call
project2(m, f) ==
    IF OutOfBounds(m, f) THEN ReturnNone(f, f.row, f.column)
    ELSE LET g    == RecordPath(f)
             tile == TileAt(m, f.row, f.column)
         IN
         IF tile.kind = "Panic" THEN [g EXCEPT !.pc = "panic"]
         ELSE IF tile.kind = "Solid" THEN ReturnSome(g, tile.color)
         ELSE IF float_eq(f.angle, 0)
         THEN Recurse(g, f.row, f.column + 1, 0, f.y, PI)
         ELSE IF float_eq(f.angle, PI)
         THEN IF f.column = 0 THEN ReturnNone(g, f.row, f.column - 1)
              ELSE Recurse(g, f.row, f.column - 1, One, f.y, 0)
         ELSE IF float_eq(f.angle, FRAC_PI_2)
         THEN Recurse(g, f.row + 1, f.column, f.x, 0, THREE_FRAC_PI_2)
         ELSE IF float_eq(f.angle, THREE_FRAC_PI_2)
         THEN IF f.row = 0 THEN ReturnNone(g, f.row - 1, f.column)
              ELSE Recurse(g, f.row - 1, f.column, f.x, One, FRAC_PI_2)
         ELSE IF f.angle < PI THEN ProjectDown(g)
         ELSE ProjectUp(g)

\* Level::project: splits the start point into cell and offset
project(angle, x, y, path) ==
    LET column == AsUsize(x)
        row    == AsUsize(y)
    IN  [Idle EXCEPT !.pc = "call", !.angle = angle, !.row = row,
                     !.column = column,
                     !.x = FSub(x, IntToF(column)),
                     !.y = FSub(y, IntToF(row)),
                     !.normal = FNeg(angle), !.path = path,
                     !.prev_row = row, !.prev_column = column,
                     !.start_x = x, !.start_y = y]

Running(f) == f.pc = "call"

RECURSIVE project_run(_, _)
\* the whole cast: project2 until it returns or the stack is exhausted
project_run(m, f) ==
    IF Running(f) THEN Only({project_run(m, g) : g \in {project2(m, f)}}) ELSE f

----------------------------------------------------------------------------
(* state *)

VARIABLES
    map,            \* Level.map
    player_x,       \* Level.player_x
    player_y,       \* Level.player_y
    player_angle,   \* Level.player_angle
    cast,           \* the project2 frame of a cast made with a path accumulator
    bare,           \* the project2 frame of the same cast made with path = None
    inputs,         \* the InputSnapshot of the latest Level::update
    result,         \* the SceneResult of the latest Level::update
    last,           \* the player before the latest update, and its move vector
    frames,         \* the number of updates so far
    entries,        \* RenderContext.player_batch.entries
    call,           \* the latest call on the batch, and the entries before it
    draw,           \* where Level::draw is, and what its latest column did
    render,         \* the latest WgpuRenderer::fill_vertex_buffer of the batch
    loop,           \* where the main loop of run is, and what its frame did
    eval            \* the latest application of a function to its arguments

levelVars == <<map, player_x, player_y, player_angle>>
castVars == <<cast, bare>>
updateVars == <<inputs, result, last, frames>>
batchVars == <<entries, call>>
hostVars == <<render, loop, eval>>
vars == <<levelVars, castVars, updateVars, batchVars, draw, hostVars>>

\* InputSnapshot: the fields Level::update reads
NoInputs ==
    [ok_clicked |-> FALSE, player_turn_left_down |-> FALSE,
     player_turn_right_down |-> FALSE, player_forward_down |-> FALSE,
     player_backward_down |-> FALSE, player_strafe_left_down |-> FALSE,
     player_strafe_right_down |-> FALSE]

NoLast == [valid |-> FALSE, x |-> 0, y |-> 0, angle |-> 0, dx |-> 0, dy |-> 0]

\* no update has run
NoUpdate ==
    /\ inputs = NoInputs
    /\ result = "None"
    /\ last = NoLast
    /\ frames = 0

\* no cast is under way
NoCast ==
    /\ cast = Idle
    /\ bare = Idle

NoCall == [op |-> "none", before |-> <<>>]
\* SpriteBatch::new, and no call on it yet
NoBatch ==
    /\ entries = <<>>
    /\ call = NoCall

\* Level::draw is not running: pc is "idle"; in the wall pass it is "walls"
\* and column is the loop variable; cast, angle and before are the result and
\* the angle of the latest column's cast and the number of entries before it;
\* base counts the entries before the wall pass, skipped the columns whose
\* cast returned None
NoDraw ==
    [pc |-> "idle", column |-> 0, cast |-> "idle", angle |-> 0, before |-> 0,
     base |-> 0, skipped |-> 0]

\* fill_vertex_buffer has not run: vertex_count is the number of vertices
\* written, top the highest index written (-1 when none), dropped the number
\* of entries left out, status "ok" or the panic that ended the call
NoRender ==
    [status |-> "idle", vertex_count |-> 0, top |-> -1, dropped |-> 0,
     logged |-> FALSE]

\* run has not entered its loop.
\* pc is the step of the loop body that comes next and dpc the part of
\* StageManager::draw that comes next; current and stack are the
\* StageManager's; hud is RenderContext.hud_batch.entries; trace lists the
\* steps the frame has taken, stop says what ended the loop, start_player and
\* start_hud are the batches as the frame's draw found them, player_seen and
\* hud_seen the batches as the renderer got them
NoLoop ==
    [pc |-> "idle", dpc |-> "start", frame |-> 0, current |-> "Level",
     stack |-> <<>>, hud |-> <<>>, trace |-> <<>>, stop |-> "none",
     start_player |-> <<>>, start_hud |-> <<>>,
     player_seen |-> <<>>, hud_seen |-> <<>>]

NoEval == [op |-> "none"]

\* nothing outside the level and its batch has run
NoHost ==
    /\ render = NoRender
    /\ loop = NoLoop
    /\ eval = NoEval

----------------------------------------------------------------------------
(* the ray projector on its own: one cast, call by call *)

\* border tiles to leave out: one next to a corner on each side, two corners
HoleCells(w, h) ==
    {Cell(0, 1), Cell(1, 0), Cell(h - 1, w - 2), Cell(h - 2, w - 1),
     Cell(0, w - 1), Cell(h - 1, 0)}

\* maps with a complete border ring and at most one interior wall tile, and
\* maps whose border ring lacks one tile
ProjectMaps ==
    {MakeMap(Width, Height, {}, {})}
    \cup {MakeMap(Width, Height, {}, {wall}) : wall \in InteriorCells(Width, Height)}
    \cup {MakeMap(Width, Height, {hole}, {}) : hole \in HoleCells(Width, Height)}

\* start points inside the cell (r, c): its corner, its centre, a point on
\* one edge and next to the opposite edge, both ways
StartPoints(r, c) ==
    {<<IntToF(c), IntToF(r)>>,
     <<FAdd(IntToF(c), F32(1, 2)), FAdd(IntToF(r), F32(1, 2))>>,
     <<IntToF(c), Pred(IntToF(r + 1))>>,
     <<Pred(IntToF(c + 1)), FAdd(IntToF(r), F32(1, 4))>>}

\* ray angles in [0, TAU): the cardinal angles, angles within TOLERANCE of
\* one, and odd angles of every quadrant, shallow and steep
RayAngles ==
    {0, FRAC_PI_2, PI, THREE_FRAC_PI_2,
     FAdd(PI, F32(1, 20000)), FSub(FRAC_PI_2, F32(1, 20000)),
     F32(2, 1000), F32(7853982, 10000000), F32(12, 10), F32(165, 100),
     F32(23561945, 10000000), F32(29, 10), F32(39269908, 10000000),
     F32(45, 10), F32(478, 100), F32(54977871, 10000000), F32(628, 100)}

InitLevelUnused ==
    /\ player_x = 0
    /\ player_y = 0
    /\ player_angle = 0

InitProject ==
    /\ NoHost
    /\ map \in ProjectMaps
    /\ InitLevelUnused
    /\ NoCast
    /\ NoUpdate
    /\ NoBatch
    /\ draw = NoDraw

\* Level::project(angle, x, y, path), once with Some(Vec::new()) and once
\* with None
Project ==
    /\ cast.pc = "idle"
    /\ \E angle \in RayAngles, c \in 0 .. Width - 1, r \in 0 .. Height - 1 :
         \E p \in StartPoints(r, c) :
            /\ cast' = project(angle, p[1], p[2], SomePath)
            /\ bare' = project(angle, p[1], p[2], NoPath)
    /\ UNCHANGED <<levelVars, updateVars, batchVars, draw, hostVars>>

\* the next call of project2, in both casts
Project2 ==
    /\ Running(cast)
    /\ cast' = project2(map, cast)
    /\ bare' = IF Running(bare) THEN project2(map, bare) ELSE bare
    /\ UNCHANGED <<levelVars, updateVars, batchVars, draw, hostVars>>

NextProject == Project \/ Project2

SpecProject == InitProject /\ [][NextProject]_vars


----------------------------------------------------------------------------
(* properties of the projector *)

CastDone == cast.pc \in {"some", "none", "panic", "overflow"}
StartRow == AsUsize(cast.start_y)
StartColumn == AsUsize(cast.start_x)
\* the cast started inside the grid, in an interior cell that is Empty
StartsInInteriorEmpty ==
    /\ cast.pc # "idle"
    /\ Cell(StartRow, StartColumn) \in InteriorCells(map.width, map.height)
    /\ IsEmpty(map, StartRow, StartColumn)

\* C1: on a map whose border ring is all Solid, a cast started in an interior
\* Empty cell terminates, and what it returns is Some(hit) with
\* 0 <= hit.x <= width and 0 <= hit.y <= height.
C1_CastTerminatesWithHit ==
    (HasSolidBorder(map) /\ StartsInInteriorEmpty) =>
        /\ cast.pc \in {"call", "some"}
        /\ cast.pc = "some" =>
              /\ 0 <= cast.hit.x /\ cast.hit.x <= IntToF(map.width)
              /\ 0 <= cast.hit.y /\ cast.hit.y <= IntToF(map.height)

\* the columns right of the start cell, in its row, that hold a Solid tile
SolidRight == {c \in StartColumn + 1 .. map.width - 1 : IsSolid(map, StartRow, c)}
SolidLeft == {c \in 0 .. StartColumn - 1 : IsSolid(map, StartRow, c)}
SolidBelow == {r \in StartRow + 1 .. map.height - 1 : IsSolid(map, r, StartColumn)}
SolidAbove == {r \in 0 .. StartRow - 1 : IsSolid(map, r, StartColumn)}
Least(S) == CHOOSE n \in S : \A k \in S : n <= k
Greatest(S) == CHOOSE n \in S : \A k \in S : n >= k
HitIs(x, y, r, c) ==
    /\ cast.pc = "some"
    /\ cast.hit.x = x
    /\ cast.hit.y = y
    /\ cast.hit.color = map.tiles[r][c].color

\* C2: a cast at a cardinal angle from an Empty cell goes along the row or the
\* column of the start point and hits the first Solid cell it meets, at the
\* coordinate of the face it enters through: on the 5x5 border-only grid, from
\* (2.5, 2.5) at angle 0, the hit is (4.0, 2.5) with the border colour.
C2_CardinalCastHitsFirstSolid ==
    (CastDone /\ InGrid(map, StartRow, StartColumn)
              /\ IsEmpty(map, StartRow, StartColumn)) =>
        /\ (cast.angle = 0 /\ SolidRight # {}) =>
              HitIs(IntToF(Least(SolidRight)), cast.start_y,
                    StartRow, Least(SolidRight))
        /\ (cast.angle = PI /\ SolidLeft # {}) =>
              HitIs(IntToF(Greatest(SolidLeft) + 1), cast.start_y,
                    StartRow, Greatest(SolidLeft))
        /\ (cast.angle = FRAC_PI_2 /\ SolidBelow # {}) =>
              HitIs(cast.start_x, IntToF(Least(SolidBelow)),
                    Least(SolidBelow), StartColumn)
        /\ (cast.angle = THREE_FRAC_PI_2 /\ SolidAbove # {}) =>
              HitIs(cast.start_x, IntToF(Greatest(SolidAbove) + 1),
                    Greatest(SolidAbove), StartColumn)
        /\ (/\ map = MakeMap(5, 5, {}, {})
            /\ cast.angle = 0
            /\ cast.start_x = F32(5, 2)
            /\ cast.start_y = F32(5, 2)) =>
              /\ cast.pc = "some"
              /\ cast.hit.x = IntToF(4)
              /\ cast.hit.y = F32(5, 2)
              /\ cast.hit.color = BorderColor

\* the cast of the example has returned, and one that met an interior wall
C2_Witness ==
    /\ cast.pc = "some"
    /\ cast.angle = 0
    /\ cast.start_x = FAdd(IntToF(Width \div 2), F32(1, 2))
    /\ cast.start_y = FAdd(IntToF(Height \div 2), F32(1, 2))
    /\ map = MakeMap(Width, Height, {}, {})
    /\ cast.hit.x = IntToF(Width - 1)
    /\ cast.hit.color = BorderColor

\* C3: the projector reads no tile outside the grid and takes no index below
\* 0; a cast returns None exactly when its cell walk steps to a cell outside
\* the grid, and Some(hit) otherwise.
C3_NoneExactlyWhenLeavingGrid ==
    /\ cast.pc \in {"idle", "call", "some", "none"}
    /\ cast.pc = "call" => cast.row >= 0 /\ cast.column >= 0
    /\ cast.pc = "none" => ~InGrid(map, cast.to_row, cast.to_column)
    /\ cast.pc = "some" =>
          InGrid(map, cast.row, cast.column) /\ IsSolid(map, cast.row, cast.column)

\* the part of C3 about indices alone: no read outside the grid, no index
\* below 0, None only for a walk that left the grid
ProjectorIndicesInRange ==
    /\ cast.pc # "panic"
    /\ cast.pc = "call" => cast.row >= 0 /\ cast.column >= 0
    /\ cast.pc = "none" => ~InGrid(map, cast.to_row, cast.to_column)
    /\ cast.pc = "some" =>
          InGrid(map, cast.row, cast.column) /\ IsSolid(map, cast.row, cast.column)

\* C5: a hit carries the colour of the Solid cell the walk reached, and its
\* normal tells the side the walk entered that cell from: PI after a step to
\* the right, 0 after a step to the left, 3*PI/2 after a step down, PI/2
\* after a step up.
C5_HitColorAndNormal ==
    (cast.pc = "some" /\ cast.depth > 0) =>
        /\ cast.hit.color = map.tiles[cast.row][cast.column].color
        /\ \/ /\ cast.column = cast.prev_column + 1 /\ cast.row = cast.prev_row
              /\ cast.hit.normal = PI
           \/ /\ cast.column = cast.prev_column - 1 /\ cast.row = cast.prev_row
              /\ cast.hit.normal = 0
           \/ /\ cast.row = cast.prev_row + 1 /\ cast.column = cast.prev_column
              /\ cast.hit.normal = THREE_FRAC_PI_2
           \/ /\ cast.row = cast.prev_row - 1 /\ cast.column = cast.prev_column
              /\ cast.hit.normal = FRAC_PI_2

\* a cast at an odd angle that walked several cells and entered an interior
\* wall from below
C5_Witness ==
    /\ cast.pc = "some"
    /\ cast.depth > 1
    /\ cast.row = cast.prev_row - 1
    /\ cast.hit.color = WallColor
    /\ cast.hit.normal = FRAC_PI_2
    /\ ~float_eq(cast.angle, THREE_FRAC_PI_2)

\* the cells a cast has been through by the time it asks for the cell
\* (row, column): one per finished call
CallsRecorded(f) ==
    IF f.pc = "call" \/ (f.pc = "none" /\ f.to_row = f.row /\ f.to_column = f.column)
    THEN f.depth ELSE f.depth + 1

\* C6: the path accumulator has no influence on a cast: with Some(vec) and
\* with None the same calls are made and the same result comes back; with
\* Some(vec) the vector holds one entry for each in-bounds cell visited, the
\* last one being the last cell visited.
C6_PathDoesNotChangeCast ==
    /\ bare.pc = cast.pc
    /\ bare.hit = cast.hit
    /\ <<bare.row, bare.column, bare.x, bare.y, bare.normal, bare.depth>>
         = <<cast.row, cast.column, cast.x, cast.y, cast.normal, cast.depth>>
    /\ bare.path = NoPath
    /\ cast.pc # "idle" =>
          /\ cast.path.some
          /\ Len(cast.path.cells) = CallsRecorded(cast)
          /\ \A i \in 1 .. Len(cast.path.cells) :
                InGrid(map, cast.path.cells[i].row, cast.path.cells[i].column)
          /\ (cast.pc = "call" /\ cast.depth > 0) =>
                cast.path.cells[Len(cast.path.cells)]
                   = Cell(cast.prev_row, cast.prev_column)
          /\ cast.pc = "some" =>
                cast.path.cells[Len(cast.path.cells)] = Cell(cast.row, cast.column)

\* both casts came back with the same hit after a walk through three cells
C6_Witness ==
    /\ cast.pc = "some"
    /\ bare.pc = "some"
    /\ bare.hit = cast.hit
    /\ Len(cast.path.cells) >= 3
    /\ bare.path = NoPath

----------------------------------------------------------------------------
(* Level::can_move_to, Level::update *)

\* `if <near> { if <edge> || !matches!(tiles[r][c], Tile::Empty) { return false } }`:
\* "true" stands for falling through to the next test
Neighbour(m, near, edge, r, c) ==
    IF ~near THEN "true"
    ELSE IF edge THEN "false"
    ELSE IF TileAt(m, r, c).kind = "Panic" THEN "panic"
    ELSE IF TileAt(m, r, c).kind # "Empty" THEN "false"
    ELSE "true"

\* the rest of a function after a test that fell through
AndThen(a, b) == IF a = "true" THEN b ELSE a

lower_bound == FDiv(PLAYER_SIZE, IntToF(2))
upper_bound == FSub(One, FDiv(PLAYER_SIZE, IntToF(2)))

\* a can_move_to that looks at the occupied cell alone
can_move_to_CellOnly(m, x, y) ==
    Neighbour(m, TRUE, FALSE, AsUsize(y), AsUsize(x))

\* Level::can_move_to: "true", "false", or "panic" for an index out of range
can_move_to(m, x, y) ==
    LET row    == AsUsize(y)
        col    == AsUsize(x)
        x_frac == FSub(x, IntToF(col))
        y_frac == FSub(y, IntToF(row))
    IN
    AndThen(Neighbour(m, TRUE, FALSE, row, col),
    AndThen(Neighbour(m, x_frac < lower_bound, col = 0, row, col - 1),
    AndThen(Neighbour(m, y_frac < lower_bound, row = 0, row - 1, col),
    AndThen(Neighbour(m, x_frac > upper_bound, col >= m.width - 1, row, col + 1),
            Neighbour(m, y_frac > upper_bound, row >= m.height - 1, row + 1, col)))))

RECURSIVE WhileAtLeastTau(_)
\* `while self.player_angle >= TAU { self.player_angle -= TAU; }`
WhileAtLeastTau(angle) ==
    IF angle >= TAU THEN WhileAtLeastTau(FSub(angle, TAU)) ELSE angle

\* a wrap that adds PI where the code adds TAU
WhileNegative_HalfTurn(angle) ==
    IF angle < 0 THEN FAdd(angle, PI) ELSE angle

RECURSIVE WhileNegative(_)
\* `while self.player_angle < 0.0 { self.player_angle += TAU; }`
WhileNegative(angle) ==
    IF angle < 0 THEN WhileNegative(FAdd(angle, TAU)) ELSE angle

\* the turn of one update and the normalisation after it
Turn(angle, in) ==
    LET a1 == IF in.player_turn_left_down THEN FSub(angle, TURN_SPEED) ELSE angle
        a2 == IF in.player_turn_right_down THEN FAdd(a1, TURN_SPEED) ELSE a1
    IN  WhileNegative(WhileAtLeastTau(a2))

\* `if down { d += v; }` and `if down { d -= v; }`
AddIf(down, d, v) == IF down THEN FAdd(d, v) ELSE d
SubIf(down, d, v) == IF down THEN FSub(d, v) ELSE d

\* the move vector (dx, dy) of one update
MoveVector(angle, in) ==
    LET mx == FMul(MOVE_SPEED, Cos(angle))
        my == FMul(MOVE_SPEED, Sin(angle))
    IN  [dx |-> SubIf(in.player_strafe_right_down,
                  AddIf(in.player_strafe_left_down,
                    SubIf(in.player_backward_down,
                      AddIf(in.player_forward_down, 0, mx), mx), my), my),
         dy |-> AddIf(in.player_strafe_right_down,
                  SubIf(in.player_strafe_left_down,
                    SubIf(in.player_backward_down,
                      AddIf(in.player_forward_down, 0, my), my), mx), mx)]

\* a Move that takes the whole vector or nothing
Move_Combined(m, x, y, dx, dy) ==
    [true  |-> [x |-> FAdd(x, dx), y |-> FAdd(y, dy), panic |-> FALSE],
     false |-> [x |-> x, y |-> y, panic |-> FALSE],
     panic |-> [x |-> x, y |-> y, panic |-> TRUE]]
        [can_move_to(m, FAdd(x, dx), FAdd(y, dy))]

\* `if self.can_move_to(self.player_x, self.player_y + dy) { self.player_y += dy; }`:
\* the new player_y, or a panic
MoveY(m, x, y, dy) ==
    [true  |-> [y |-> FAdd(y, dy), panic |-> FALSE],
     false |-> [y |-> y, panic |-> FALSE],
     panic |-> [y |-> y, panic |-> TRUE]]
        [can_move_to(m, x, FAdd(y, dy))]

\* `if self.can_move_to(self.player_x + dx, self.player_y) { self.player_x += dx; }`
\* with player_y as the first gate left it
MoveX(m, x, first, dx) ==
    IF first.panic THEN [x |-> x, y |-> first.y, panic |-> TRUE]
    ELSE [true  |-> [x |-> FAdd(x, dx), y |-> first.y, panic |-> FALSE],
          false |-> [x |-> x, y |-> first.y, panic |-> FALSE],
          panic |-> [x |-> x, y |-> first.y, panic |-> TRUE]]
             [can_move_to(m, FAdd(x, dx), first.y)]

\* the two gated assignments at the end of update: y first, then x
Move(m, x, y, dx, dy) ==
    Only({MoveX(m, x, first, dx) : first \in {MoveY(m, x, y, dy)}})

\* a LevelUpdate that turns the player before it looks at ok_clicked
LevelUpdate_TurnFirst(in) ==
    /\ inputs' = in
    /\ frames' = frames + 1
    /\ UNCHANGED map
    /\ IF in.ok_clicked
       THEN /\ result' = "PushKillScreen"
            /\ last' = [valid |-> FALSE, x |-> player_x, y |-> player_y,
                        angle |-> player_angle, dx |-> 0, dy |-> 0]
            /\ player_angle' = Turn(player_angle, in)
            /\ UNCHANGED <<player_x, player_y>>
       ELSE \E angle \in {Turn(player_angle, in)} :
            \E d \in {MoveVector(angle, in)} :
            \E to \in {Move(map, player_x, player_y, d.dx, d.dy)} :
                /\ player_angle' = angle
                /\ player_x' = to.x
                /\ player_y' = to.y
                /\ result' = IF to.panic THEN "panic" ELSE "Continue"
                /\ last' = [valid |-> TRUE, x |-> player_x, y |-> player_y,
                            angle |-> player_angle, dx |-> d.dx, dy |-> d.dy]

\* Level::update(context, inputs, sounds): what it does to the level
LevelUpdate(in) ==
    /\ inputs' = in
    /\ frames' = frames + 1
    /\ UNCHANGED map
    /\ IF in.ok_clicked
       THEN /\ result' = "PushKillScreen"
            /\ last' = [valid |-> FALSE, x |-> player_x, y |-> player_y,
                        angle |-> player_angle, dx |-> 0, dy |-> 0]
            /\ UNCHANGED <<player_x, player_y, player_angle>>
       ELSE \E angle \in {Turn(player_angle, in)} :
            \E d \in {MoveVector(angle, in)} :
            \E to \in {Move(map, player_x, player_y, d.dx, d.dy)} :
                /\ player_angle' = angle
                /\ player_x' = to.x
                /\ player_y' = to.y
                /\ result' = IF to.panic THEN "panic" ELSE "Continue"
                /\ last' = [valid |-> TRUE, x |-> player_x, y |-> player_y,
                            angle |-> player_angle, dx |-> d.dx, dy |-> d.dy]

\* Level::update(context, inputs, sounds) on its own
UpdateWith(in) ==
    /\ LevelUpdate(in)
    /\ UNCHANGED <<castVars, batchVars, draw, hostVars>>

----------------------------------------------------------------------------
(* the level under a few updates with any inputs *)

MaxUpdates == 2

Held(keys) == [k \in DOMAIN NoInputs |-> k \in keys]

InputSnapshots ==
    {Held({}), Held({"ok_clicked"}),
     Held({"player_turn_left_down"}), Held({"player_turn_right_down"}),
     Held({"player_forward_down"}), Held({"player_backward_down"}),
     Held({"player_strafe_left_down"}), Held({"player_strafe_right_down"}),
     Held({"player_forward_down", "player_turn_left_down"}),
     Held({"player_forward_down", "player_strafe_right_down"}),
     Held({"player_backward_down", "player_strafe_left_down",
           "player_turn_right_down"}),
     Held(DOMAIN NoInputs \ {"ok_clicked"})}

\* a bordered map without walls and one with a wall next to the centre
UpdateMaps ==
    {MakeMap(Width, Height, {}, {}),
     MakeMap(Width, Height, {}, {Cell(Height \div 2, Width \div 2 + 1)})}

\* the centre of the map, where Level::new puts the player, and places that
\* walking leads to: close to the left wall, to the top wall, and to both
UpdatePlaces ==
    {<<FAdd(IntToF(Width \div 2), F32(1, 2)), FAdd(IntToF(Height \div 2), F32(1, 2))>>,
     <<F32(142, 100), FAdd(IntToF(Height \div 2), F32(1, 2))>>,
     <<FAdd(IntToF(Width \div 2), F32(1, 2)), F32(142, 100)>>,
     <<F32(142, 100), F32(142, 100)>>}

\* headings in [0, TAU): the start heading 0, diagonals, the heading one step
\* of the format below TURN_SPEED, and one just below TAU
UpdateHeadings ==
    {0, F32(7853982, 10000000), F32(39269908, 10000000), Pred(TURN_SPEED),
     FSub(TAU, F32(1, 100))}

InitUpdate ==
    /\ NoHost
    /\ map \in UpdateMaps
    /\ \E p \in UpdatePlaces : player_x = p[1] /\ player_y = p[2]
    /\ player_angle \in UpdateHeadings
    /\ NoCast
    /\ NoUpdate
    /\ NoBatch
    /\ draw = NoDraw

Update ==
    /\ frames < MaxUpdates
    /\ \E in \in InputSnapshots : UpdateWith(in)

NextUpdate == Update

SpecUpdate == InitUpdate /\ [][NextUpdate]_vars

\* C7: a move (dx, dy) is applied one axis at a time: when the collision
\* check rejects (x, y + dy) and accepts (x + dx, y), the update leaves
\* player_y alone and sets player_x to x + dx; when it accepts (x, y + dy) and
\* rejects (x + dx, y + dy), it sets player_y to y + dy and leaves player_x
\* alone.
C7_AxesAppliedIndependently ==
    (last.valid /\ result = "Continue") =>
        /\ (/\ can_move_to(map, last.x, FAdd(last.y, last.dy)) = "false"
            /\ can_move_to(map, FAdd(last.x, last.dx), last.y) = "true") =>
              /\ player_y = last.y
              /\ player_x = FAdd(last.x, last.dx)
        /\ (/\ can_move_to(map, last.x, FAdd(last.y, last.dy)) = "true"
            /\ can_move_to(map, FAdd(last.x, last.dx), FAdd(last.y, last.dy))
                  = "false") =>
              /\ player_y = FAdd(last.y, last.dy)
              /\ player_x = last.x

\* a diagonal move slid along the top wall: y rejected, x applied
C7_Witness ==
    /\ last.valid
    /\ last.dx # 0
    /\ last.dy # 0
    /\ can_move_to(map, last.x, FAdd(last.y, last.dy)) = "false"
    /\ can_move_to(map, FAdd(last.x, last.dx), last.y) = "true"
    /\ player_y = last.y
    /\ player_x = FAdd(last.x, last.dx)
    /\ player_x # last.x

\* C8: after every update, whatever was turned, 0 <= player_angle < 2 PI.
C8_HeadingInRange ==
    frames > 0 => (0 <= player_angle /\ player_angle < TAU)

----------------------------------------------------------------------------
(* the level under turn-left updates alone *)

TurnLeftHeld == Held({"player_turn_left_down"})

\* the whole updates in a turn of 2 PI
FullTurnUpdates == AsUsize(FDiv(TAU, TURN_SPEED))

TurnHeadings ==
    {0, F32(1, 100), Pred(TURN_SPEED), F32(1, 1), PI, F32(45, 10),
     F32(628, 100), Pred(TAU)}

InitTurn ==
    /\ NoHost
    /\ map = MakeMap(Width, Height, {}, {})
    /\ player_x = FAdd(IntToF(Width \div 2), F32(1, 2))
    /\ player_y = FAdd(IntToF(Height \div 2), F32(1, 2))
    /\ player_angle \in TurnHeadings
    /\ NoCast
    /\ NoBatch
    /\ draw = NoDraw
    /\ inputs = NoInputs
    /\ result = "None"
    /\ last = [NoLast EXCEPT !.angle = player_angle]
    /\ frames = 0

\* one more update with turn-left held; last.angle keeps the first heading
TurnLeft ==
    /\ frames < FullTurnUpdates
    /\ inputs' = TurnLeftHeld
    /\ frames' = frames + 1
    /\ player_angle' = Turn(player_angle, TurnLeftHeld)
    /\ result' = "Continue"
    /\ UNCHANGED <<map, player_x, player_y, castVars, last, batchVars, draw, hostVars>>

NextTurn == TurnLeft

SpecTurn == InitTurn /\ [][NextTurn]_vars

\* the distance from heading a to heading b around the circle
HeadingDistance(a, b) ==
    IF Abs(FSub(a, b)) <= PI THEN Abs(FSub(a, b)) ELSE FSub(TAU, Abs(FSub(a, b)))

\* C9 as the specification has it: after the updates of a whole turn the
\* heading is back at its start to within floating tolerance.
C9_FullTurnReturnsWithinTolerance ==
    frames = FullTurnUpdates => HeadingDistance(player_angle, last.angle) < TOLERANCE

\* C9, amended: after the FullTurnUpdates (314) updates of a whole turn the
\* heading is back within one TURN_SPEED step of its start, and not within
\* floating tolerance of it: 2 PI is no whole multiple of TURN_SPEED.
C9_FullTurnReturnsWithinOneStep ==
    frames = FullTurnUpdates =>
        /\ HeadingDistance(player_angle, last.angle) < TURN_SPEED
        /\ HeadingDistance(player_angle, last.angle) >= TOLERANCE

\* a whole turn from the heading PI is over
C9_Witness ==
    /\ frames = FullTurnUpdates
    /\ FullTurnUpdates = 314
    /\ last.angle = PI
    /\ inputs = TurnLeftHeld
    /\ player_angle > PI
    /\ FSub(player_angle, PI) < TURN_SPEED

----------------------------------------------------------------------------
(* SpriteBatch *)

Point(x, y) == [x |-> x, y |-> y]
Rect(x, y, w, h) == [x |-> x, y |-> y, w |-> w, h |-> h]

\* Rect::left, ::top, ::right, ::bottom
left(r) == r.x
top(r) == r.y
right(r) == r.x + r.w
bottom(r) == r.y + r.h

\* an intersects that leaves out rectangles which only touch
intersects_Open(a, other) ==
    /\ right(a) > left(other)
    /\ left(a) < right(other)
    /\ bottom(a) > top(other)
    /\ top(a) < bottom(other)

\* Rect::intersects
intersects(a, other) ==
    /\ right(a) >= left(other)
    /\ left(a) <= right(other)
    /\ bottom(a) >= top(other)
    /\ top(a) <= bottom(other)

\* a contains that leaves out the right and the bottom edge
contains_HalfOpen(r, point) ==
    /\ point.x >= left(r)
    /\ point.x < right(r)
    /\ point.y >= top(r)
    /\ point.y < bottom(r)

\* Rect::contains
contains(r, point) ==
    /\ point.x >= left(r)
    /\ point.x <= right(r)
    /\ point.y >= top(r)
    /\ point.y <= bottom(r)

\* a translation that moves the far corner only
rect_add_Grow(r, rhs) == Rect(r.x, r.y, r.w + rhs.x, r.h + rhs.y)

\* impl Add<Point<T>> for Rect<T>
rect_add(r, rhs) == Rect(r.x + rhs.x, r.y + rhs.y, r.w, r.h)

\* i32 `/`: truncates towards zero
TruncDiv(a, b) == Sgn(a) * Sgn(b) * (Abs(a) \div Abs(b))

\* SpriteBatchEntry::FillRect, ::FillTriangle, ::Line
FillRectEntry(rect, color) ==
    [kind |-> "FillRect", destination |-> rect, color |-> color]
FillTriangleEntry(p1, p2, p3, color) ==
    [kind |-> "FillTriangle", p1 |-> p1, p2 |-> p2, p3 |-> p3, color |-> color]
LineEntry(start, end, color, width) ==
    [kind |-> "Line", start |-> start, end |-> end, color |-> color,
     width |-> width]

\* a fill_rect that pushes its entry twice
fill_rect_Twice(es, rect, color) ==
    Append(Append(es, FillRectEntry(rect, color)), FillRectEntry(rect, color))

\* SpriteBatch::fill_rect on the entries es
fill_rect(es, rect, color) == Append(es, FillRectEntry(rect, color))

\* SpriteBatch::fill_triangle
fill_triangle(es, p1, p2, p3, color) ==
    Append(es, FillTriangleEntry(p1, p2, p3, color))

\* a draw_line that pushes a Line whatever the points are
draw_line_AlwaysLine(es, point1, point2, color, width) ==
    Append(es, LineEntry(point1, point2, color, width))

\* SpriteBatch::draw_line
draw_line(es, point1, point2, color, width) ==
    IF point1.y = point2.y
    THEN fill_rect(es,
                   IF point1.x > point2.x
                   THEN Rect(point2.x, point2.y - TruncDiv(width, 2),
                             point1.x - point2.x, width)
                   ELSE Rect(point1.x, point1.y - TruncDiv(width, 2),
                             point2.x - point1.x, width),
                   color)
    ELSE IF point1.x = point2.x
    THEN fill_rect(es,
                   IF point1.y > point2.y
                   THEN Rect(point2.x - TruncDiv(width, 2), point2.y,
                             width, point1.y - point2.y)
                   ELSE Rect(point1.x - TruncDiv(width, 2), point1.y,
                             width, point2.y - point1.y),
                   color)
    ELSE Append(es, LineEntry(point1, point2, color, width))


----------------------------------------------------------------------------
(* SpriteBatch::fill_arc, SpriteBatch::fill_circle *)

RENDER_WIDTH == 320
RENDER_HEIGHT == 200
CIRCLE_STEPS == 50

\* `Point::new(theta.cos(), theta.sin()) * radius`, each coordinate `as i32`,
\* `+ center`
ArcPoint(center, radius, theta) ==
    Point(AsI32(FMul(Cos(theta), radius)) + center.x,
          AsI32(FMul(Sin(theta), radius)) + center.y)

dtheta == FDiv(FMul(IntToF(2), PI), IntToF(CIRCLE_STEPS))

RECURSIVE ArcThetas_Strict(_, _)
\* the values of theta in a loop `while theta < end_theta`
ArcThetas_Strict(theta, end_theta) ==
    IF theta < end_theta
    THEN <<theta>> \o ArcThetas_Strict(FAdd(theta, dtheta), end_theta)
    ELSE <<>>

RECURSIVE ArcThetas(_, _)
\* the values theta takes in the loop of fill_arc: `while theta <= end_theta`
ArcThetas(theta, end_theta) ==
    IF theta <= end_theta
    THEN <<theta>> \o ArcThetas(FAdd(theta, dtheta), end_theta)
    ELSE <<>>

\* SpriteBatch::fill_arc: one triangle for each turn of the loop
fill_arc(es, center, radius, start_theta, end_theta, color) ==
    Only({es \o [k \in 1 .. Len(thetas) |->
                    FillTriangleEntry(
                        center,
                        ArcPoint(center, radius, FAdd(thetas[k], dtheta)),
                        ArcPoint(center, radius, thetas[k]),
                        color)]
          : thetas \in {ArcThetas(start_theta, end_theta)}})

\* a fill_circle that stops after half a turn
fill_circle_HalfTurn(es, center, radius, color) ==
    fill_arc(es, center, radius, 0, PI, color)

\* SpriteBatch::fill_circle
fill_circle(es, center, radius, color) ==
    fill_arc(es, center, radius, 0, FMul(IntToF(2), PI), color)


\* SpriteBatchEntry::Sprite
SpriteEntry(sprite, source, destination, reversed) ==
    [kind |-> "Sprite", sprite |-> sprite, source |-> source,
     destination |-> destination, reversed |-> reversed]

\* Sprite
Sprite(id, area) == [id |-> id, area |-> area]

\* SpriteBatch::draw
batch_draw(es, sprite, dst, src, reversed) ==
    Append(es, SpriteEntry(sprite, src, dst, reversed))

\* a draw_circle that puts its entries in front of the ones there
draw_circle_InFront(es, center, radius, color, width) ==
    Only({[k \in 1 .. Len(thetas) |->
              Only({draw_line(<<>>, p1, p2, color, width)[1]
                    : p1 \in {ArcPoint(center, radius, thetas[k])},
                      p2 \in {ArcPoint(center, radius,
                                        FAdd(thetas[k], dtheta))}})] \o es
          : thetas \in {ArcThetas(0, FMul(IntToF(2), PI))}})

\* SpriteBatch::draw_circle: one draw_line for each turn of the loop
draw_circle(es, center, radius, color, width) ==
    Only({es \o [k \in 1 .. Len(thetas) |->
                    Only({draw_line(<<>>, p1, p2, color, width)[1]
                          : p1 \in {ArcPoint(center, radius, thetas[k])},
                            p2 \in {ArcPoint(center, radius,
                                              FAdd(thetas[k], dtheta))}})]
          : thetas \in {ArcThetas(0, FMul(IntToF(2), PI))}})

\* add_line_to_vertex_buffer: the test that makes it panic
LinePanics(point1, point2) == point1.x = point2.x \/ point1.y = point2.y

----------------------------------------------------------------------------
(* WgpuRenderer::fill_vertex_buffer *)

\* the capacity of a vertex buffer in entries: 4096 in the renderer, a few
\* entries here
MAX_ENTRIES == 3
MAX_VERTICES == MAX_ENTRIES * 6

\* the vertices add_rect_to_vertex_buffer, add_line_to_vertex_buffer (6) and
\* add_triangle_to_vertex_buffer (3) write for an entry
VertexCount(entry) == IF entry.kind = "FillTriangle" THEN 3 ELSE 6

\* `let i = *vertex_count; *vertex_count += n; vertices[i] = ...;` up to
\* `vertices[i + n - 1] = ...`: indexing the Vec at MAX_VERTICES or above
\* panics, after the writes below it
AddToVertexBuffer(st, entry) ==
    IF entry.kind = "Line" /\ LinePanics(entry.start, entry.end)
    THEN [st EXCEPT !.status = "panic: line"]
    ELSE IF st.vertex_count + VertexCount(entry) > MAX_VERTICES
    THEN [st EXCEPT !.status = "panic: index",
                    !.vertex_count = @ + VertexCount(entry),
                    !.top = MAX_VERTICES]
    ELSE [st EXCEPT !.vertex_count = @ + VertexCount(entry),
                    !.top = st.vertex_count + VertexCount(entry) - 1]

RECURSIVE FillFrom(_, _, _)
\* the loop of fill_vertex_buffer from entry k on
FillFrom(es, k, st) ==
    IF k > Len(es) THEN st
    ELSE IF st.vertex_count >= MAX_VERTICES
    THEN [st EXCEPT !.dropped = Len(es) - k + 1]
    ELSE IF AddToVertexBuffer(st, es[k]).status # "ok"
    THEN AddToVertexBuffer(st, es[k])
    ELSE FillFrom(es, k + 1, AddToVertexBuffer(st, es[k]))

\* WgpuRenderer::fill_vertex_buffer(layer, batch)
fill_vertex_buffer(es) ==
    FillFrom(es, 1, [status |-> "ok", vertex_count |-> 0, top |-> -1,
                     dropped |-> 0, logged |-> Len(es) > MAX_ENTRIES])

----------------------------------------------------------------------------
(* a batch under the SpriteBatch operations and RenderContext::clear *)

MaxEntries == 2

BatchColors == {Color(0, 51, 60, 255), WallColor}
BatchRects == {Rect(0, 0, 320, 200), Rect(10, 20, 10, 10)}
BatchPoints == {Point(0, 0), Point(0, 9), Point(7, 9)}

\* centres, radii and spans of the circles and arcs drawn
CircleCenters == {Point(0, 0), Point(165, 205)}
CircleRadii == {0, IntToF(5), FDiv(IntToF(81), IntToF(2))}
ArcEnds == {<<FNeg(FDiv(PI, IntToF(4))), FDiv(PI, IntToF(4))>>,
            <<PI, PI>>, <<PI, 0>>}

\* the batches an arc or a circle is added to
ArcBatches ==
    {<<>>,
     fill_rect(<<>>, Rect(10, 20, 10, 10), WallColor),
     draw_line(<<>>, Point(0, 0), Point(7, 9), WallColor, 1)}

InitBatch ==
    /\ NoHost
    /\ map = MakeMap(Width, Height, {}, {})
    /\ InitLevelUnused
    /\ NoCast
    /\ NoUpdate
    /\ NoBatch
    /\ draw = NoDraw

FillRect ==
    /\ Len(entries) < MaxEntries
    /\ \E rect \in BatchRects, color \in BatchColors :
          /\ entries' = fill_rect(entries, rect, color)
          /\ call' = [op |-> "fill_rect", before |-> entries, rect |-> rect,
                      color |-> color]
    /\ UNCHANGED <<levelVars, castVars, updateVars, draw, hostVars>>

FillTriangle ==
    /\ Len(entries) < MaxEntries
    /\ \E p2 \in BatchPoints \ {Point(0, 0)}, color \in {WallColor} :
          /\ entries' = fill_triangle(entries, Point(0, 0), p2, Point(3, 4), color)
          /\ call' = [op |-> "fill_triangle", before |-> entries]
    /\ UNCHANGED <<levelVars, castVars, updateVars, draw, hostVars>>

DrawLine ==
    /\ Len(entries) < MaxEntries
    /\ \E point1 \in BatchPoints, point2 \in BatchPoints, width \in {1, 3} :
          /\ entries' = draw_line(entries, point1, point2, WallColor, width)
          /\ call' = [op |-> "draw_line", before |-> entries,
                      point1 |-> point1, point2 |-> point2]
    /\ UNCHANGED <<levelVars, castVars, updateVars, draw, hostVars>>

\* RenderContext::clear
Clear ==
    /\ entries # <<>>
    /\ entries' = <<>>
    /\ call' = [NoCall EXCEPT !.op = "clear"]
    /\ UNCHANGED <<levelVars, castVars, updateVars, draw, hostVars>>

\* SpriteBatch::draw of a sprite
BatchDraw ==
    /\ Len(entries) < MaxEntries
    /\ \E reversed \in BOOLEAN :
          /\ entries' = batch_draw(entries, Sprite(0, Rect(0, 0, 64, 64)),
                                   Rect(10, 20, 10, 10), Rect(8, 0, 8, 8),
                                   reversed)
          /\ call' = [op |-> "draw", before |-> entries]
    /\ UNCHANGED <<levelVars, castVars, updateVars, draw, hostVars>>

FillArc ==
    /\ entries \in ArcBatches
    /\ \E center \in CircleCenters, ends \in ArcEnds :
          /\ entries' = fill_arc(entries, center, IntToF(40), ends[1], ends[2],
                                 WallColor)
          /\ call' = [op |-> "fill_arc", before |-> entries]
    /\ UNCHANGED <<levelVars, castVars, updateVars, draw, hostVars>>

FillCircle ==
    /\ entries \in ArcBatches
    /\ \E center \in CircleCenters, radius \in CircleRadii :
          /\ entries' = fill_circle(entries, center, radius, WallColor)
          /\ call' = [op |-> "fill_circle", before |-> entries,
                      center |-> center, radius |-> radius]
    /\ UNCHANGED <<levelVars, castVars, updateVars, draw, hostVars>>

DrawCircle ==
    /\ entries \in ArcBatches
    /\ \E center \in CircleCenters, radius \in CircleRadii :
          /\ entries' = draw_circle(entries, center, radius, WallColor, 1)
          /\ call' = [op |-> "draw_circle", before |-> entries]
    /\ UNCHANGED <<levelVars, castVars, updateVars, draw, hostVars>>

NextBatch ==
    \/ FillRect
    \/ FillTriangle
    \/ DrawLine
    \/ Clear
    \/ BatchDraw
    \/ FillArc
    \/ FillCircle
    \/ DrawCircle

SpecBatch == InitBatch /\ [][NextBatch]_vars

\* C10: fill_rect(rect, color) appends exactly one entry, a FillRect whose
\* destination is rect and whose color is color, and leaves the entries that
\* were there alone; on an empty batch the batch then holds that entry alone.
C10_FillRectAppendsOneEntry ==
    call.op = "fill_rect" =>
        /\ Len(entries) = Len(call.before) + 1
        /\ SubSeq(entries, 1, Len(call.before)) = call.before
        /\ entries[Len(entries)].kind = "FillRect"
        /\ entries[Len(entries)].destination = call.rect
        /\ entries[Len(entries)].color = call.color
        /\ call.before = <<>> =>
              entries = <<[kind |-> "FillRect", destination |-> call.rect,
                           color |-> call.color]>>

\* fill_rect was called on an empty batch, and on one that held entries
C10_Witness ==
    /\ call.op = "fill_rect"
    /\ call.before = <<>>
    /\ call.rect = Rect(10, 20, 10, 10)
    /\ entries = <<FillRectEntry(Rect(10, 20, 10, 10), WallColor)>>

\* C11: draw_line(p1, p2, color, width) appends exactly one entry, a FillRect
\* when p1.y = p2.y or p1.x = p2.x and a Line only when both coordinates
\* differ; so no Line entry of a batch built by the SpriteBatch operations has
\* equal x or equal y coordinates, and the renderer's panic on such a Line
\* cannot happen.
C11_DrawLineAlignedIsFillRect ==
    /\ call.op = "draw_line" =>
          /\ Len(entries) = Len(call.before) + 1
          /\ SubSeq(entries, 1, Len(call.before)) = call.before
          /\ entries[Len(entries)].kind =
                IF call.point1.y = call.point2.y \/ call.point1.x = call.point2.x
                THEN "FillRect" ELSE "Line"
    /\ \A k \in 1 .. Len(entries) :
          entries[k].kind = "Line" =>
              ~LinePanics(entries[k].start, entries[k].end)

\* a horizontal draw_line on a batch that holds a Line
C11_Witness ==
    /\ call.op = "draw_line"
    /\ call.point1 = Point(7, 9)
    /\ call.point2 = Point(0, 9)
    /\ Len(entries) = 2
    /\ entries[1].kind = "Line"
    /\ entries[2] = FillRectEntry(Rect(0, 8, 7, 3), WallColor)

\* C12: each SpriteBatch operation leaves the entries that were there
\* unchanged and at the same index and adds its own at the end; nothing is
\* removed, merged or reordered until RenderContext::clear.
C12_EntriesAppendOnly ==
    call.op \notin {"none", "clear"} =>
        /\ Len(entries) >= Len(call.before)
        /\ \A k \in 1 .. Len(call.before) : entries[k] = call.before[k]

\* draw_circle on a batch that held a rectangle
C12_Witness ==
    /\ call.op = "draw_circle"
    /\ call.before = <<FillRectEntry(Rect(10, 20, 10, 10), WallColor)>>
    /\ Len(entries) > CIRCLE_STEPS
    /\ entries[1] = FillRectEntry(Rect(10, 20, 10, 10), WallColor)

\* C15: fill_circle appends CIRCLE_STEPS or CIRCLE_STEPS + 1 entries, all of
\* them FillTriangle, and as many for every radius and every center.
C15_FillCircleTriangleCount ==
    call.op = "fill_circle" =>
        /\ Len(entries) - Len(call.before) \in {CIRCLE_STEPS, CIRCLE_STEPS + 1}
        /\ Len(entries) - Len(call.before) =
              Len(fill_circle(<<>>, Point(0, 0), One, NoColor))
        /\ \A k \in Len(call.before) + 1 .. Len(entries) :
              entries[k].kind = "FillTriangle"

\* fill_circle with radius 40.5 around (165, 205) on a batch that held a Line
C15_Witness ==
    /\ call.op = "fill_circle"
    /\ call.center = Point(165, 205)
    /\ call.radius = FDiv(IntToF(81), IntToF(2))
    /\ Len(call.before) = 1
    /\ Len(entries) = 1 + CIRCLE_STEPS

----------------------------------------------------------------------------
(* the renderer on batches of any mix of entries *)

\* one entry of each kind, made by the SpriteBatch operations
RenderEntries ==
    {batch_draw(<<>>, Sprite(0, Rect(0, 0, 64, 64)), Rect(10, 20, 10, 10),
                Rect(8, 0, 8, 8), FALSE)[1],
     fill_rect(<<>>, Rect(10, 20, 10, 10), WallColor)[1],
     fill_triangle(<<>>, Point(0, 0), Point(7, 9), Point(3, 4), WallColor)[1],
     draw_line(<<>>, Point(7, 9), Point(0, 0), WallColor, 1)[1]}

\* the batches of up to two entries more than the buffer's capacity
RenderBatches ==
    UNION {[1 .. n -> RenderEntries] : n \in 0 .. MAX_ENTRIES + 2}

InitRender ==
    /\ map = MakeMap(Width, Height, {}, {})
    /\ InitLevelUnused
    /\ NoCast
    /\ NoUpdate
    /\ entries \in RenderBatches
    /\ call = NoCall
    /\ draw = NoDraw
    /\ NoHost

\* WgpuRenderer::render: fill_vertex_buffer of the player batch
Render ==
    /\ render.status = "idle"
    /\ render' = fill_vertex_buffer(entries)
    /\ UNCHANGED <<levelVars, castVars, updateVars, batchVars, draw, loop, eval>>

NextRender == Render

SpecRender == InitRender /\ [][NextRender]_vars

\* C14: for a batch of any length and any mix of entry kinds,
\* fill_vertex_buffer completes without crashing: it writes no vertex at an
\* index of MAX_VERTICES or above, and the entries that do not fit are dropped.
C14_VertexBufferNeverOverrun ==
    render.status # "idle" =>
        /\ render.status = "ok"
        /\ render.top < MAX_VERTICES
        /\ render.vertex_count <= MAX_VERTICES

\* what does hold: a batch whose entries all take six vertices is cut at the
\* capacity, the rest dropped and the excess logged
RenderSixVertexBatchesFit ==
    (/\ render.status # "idle"
     /\ \A k \in 1 .. Len(entries) : entries[k].kind # "FillTriangle") =>
        /\ render.status = "ok"
        /\ render.vertex_count = 6 * (Len(entries) - render.dropped)
        /\ render.top < MAX_VERTICES
        /\ render.dropped = Max(0, Len(entries) - MAX_ENTRIES)
        /\ render.logged = (render.dropped > 0)

----------------------------------------------------------------------------
(* fill_arc on its own *)

\* the spans tried: the arc of Level::draw, an empty span, a span that ends
\* before it starts, the whole and the half circle, spans of one and of four
\* steps, spans that are no whole number of steps
ArcSpans ==
    {<<FNeg(FDiv(PI, IntToF(4))), FDiv(PI, IntToF(4))>>,
     <<PI, PI>>, <<PI, 0>>, <<One, F32(1, 2)>>,
     <<0, FMul(IntToF(2), PI)>>, <<0, PI>>,
     <<0, dtheta>>, <<0, Pred(dtheta)>>,
     <<F32(1, 2), FAdd(F32(1, 2), FMul(IntToF(4), dtheta))>>,
     <<One, F32(13, 10)>>, <<0, F32(1, 10)>>,
     <<IntToF(5), FAdd(IntToF(5), FDiv(PI, IntToF(2)))>>}

ArcRadii == {0, IntToF(5), IntToF(40), FDiv(IntToF(81), IntToF(2))}

InitArc ==
    /\ map = MakeMap(Width, Height, {}, {})
    /\ InitLevelUnused
    /\ NoCast
    /\ NoUpdate
    /\ entries \in {<<>>, fill_rect(<<>>, Rect(10, 20, 10, 10), WallColor)}
    /\ call = NoCall
    /\ draw = NoDraw
    /\ render = NoRender
    /\ loop = NoLoop
    /\ \E center \in CircleCenters, radius \in ArcRadii, span \in ArcSpans :
          eval = [op |-> "none", center |-> center, radius |-> radius,
                  start_theta |-> span[1], end_theta |-> span[2]]

\* SpriteBatch::fill_arc(center, radius, start_theta, end_theta, color)
ArcFill ==
    /\ eval.op = "none"
    /\ entries' = fill_arc(entries, eval.center, eval.radius, eval.start_theta,
                           eval.end_theta, WallColor)
    /\ call' = [op |-> "fill_arc", before |-> entries]
    /\ eval' = [eval EXCEPT !.op = "fill_arc"]
    /\ UNCHANGED <<levelVars, castVars, updateVars, draw, render, loop>>

NextArc == ArcFill

SpecArc == InitArc /\ [][NextArc]_vars

\* the triangles the call appended
ArcCount == Len(entries) - Len(call.before)
\* the angle at which the last triangle ends: theta after the loop
ArcLast ==
    FAdd(ArcThetas(eval.start_theta, eval.end_theta)[ArcCount], dtheta)
\* what the roundings of the sums of theta can add up to: one unit in the
\* last place of an angle below 8 for each sum
ArcRounding == (ArcCount + 1) * 8 * (One - Pred(One))

ArcCountExact ==
    (/\ eval.op = "fill_arc"
     /\ eval.start_theta <= eval.end_theta
     /\ (eval.end_theta - eval.start_theta) % dtheta > ArcRounding
     /\ (eval.end_theta - eval.start_theta) % dtheta < dtheta - ArcRounding) =>
        ArcCount = (eval.end_theta - eval.start_theta) \div dtheta + 1

----------------------------------------------------------------------------
(* Level::draw *)

\* the columns of the wall pass: `for column in 0..320`
WallColumns == 320

\* the side of a map tile in the 2d view
TileSide == 10

bgcolor == Color(0, 51, 60, 255)
empty_color == Color(0, 0, 0, 255)
player_color == Color(255, 255, 255, 255)
arc_color == Color(255, 0, 0, 127)
looking_color == Color(255, 255, 255, 255)
path_color == Color(255, 255, 255, 68)

\* the tiles of the 2d view, row by row
TileRects(m) ==
    [k \in 1 .. m.height * m.width |->
        LET i == (k - 1) \div m.width
            j == (k - 1) % m.width
        IN  FillRectEntry(Rect(j * TileSide, i * TileSide, TileSide, TileSide),
                          IF m.tiles[i][j].kind = "Empty" THEN empty_color
                          ELSE m.tiles[i][j].color)]

\* the player in the 2d view
PlayerPoint(px, py) ==
    Point(AsI32(FMul(px, IntToF(TileSide))), AsI32(FMul(py, IntToF(TileSide))))

\* draw up to the wall pass: the screen, the 2d view, the player and its arc
DrawBackground(es, m, px, py, pa) ==
    fill_arc(fill_circle(fill_rect(es, Rect(0, 0, RENDER_WIDTH, RENDER_HEIGHT),
                                   bgcolor) \o TileRects(m),
                         PlayerPoint(px, py), IntToF(5), player_color),
             PlayerPoint(px, py), IntToF(40),
             FSub(pa, FDiv(PI, IntToF(4))), FAdd(pa, FDiv(PI, IntToF(4))),
             arc_color)

RECURSIVE WhileAtLeastTwoPi(_)
\* `while angle >= PI * 2.0 { angle -= PI * 2.0; }`
WhileAtLeastTwoPi(angle) ==
    IF angle >= FMul(PI, IntToF(2))
    THEN WhileAtLeastTwoPi(FSub(angle, FMul(PI, IntToF(2)))) ELSE angle

RECURSIVE WhileBelowZero(_)
\* `while angle < 0.0 { angle += PI * 2.0; }`
WhileBelowZero(angle) ==
    IF angle < 0 THEN WhileBelowZero(FAdd(angle, FMul(PI, IntToF(2)))) ELSE angle

\* the angle of the ray of a column
ColumnAngle(column, pa) ==
    WhileBelowZero(WhileAtLeastTwoPi(
        FAdd(pa, FSub(FMul(FDiv(IntToF(column), IntToF(320)),
                           FDiv(PI, IntToF(2))),
                      FDiv(PI, IntToF(4))))))

\* the distance to the hit, without the fisheye effect
Distance(px, py, pa, angle, projection) ==
    FMul(FSqrt(FAdd(FMul(FSub(px, projection.x), FSub(px, projection.x)),
                    FMul(FSub(py, projection.y), FSub(py, projection.y)))),
         Cos(FSub(pa, angle)))

\* a StripHeight that does not limit the scale to 1
StripHeight_Unlimited(px, py, pa, angle, projection) ==
    Only({AsI32(FMul(IntToF(RENDER_HEIGHT), FDiv(One, distance)))
          : distance \in {Distance(px, py, pa, angle, projection)}})

\* the height of the strip of a column
StripHeight(px, py, pa, angle, projection) ==
    Only({AsI32(FMul(IntToF(RENDER_HEIGHT),
                     IF distance < One THEN One ELSE FDiv(One, distance)))
          : distance \in {Distance(px, py, pa, angle, projection)}})

dimming == One

\* the factor for diffuse lighting, over the factor for distance lighting
Light(px, py, projection) ==
    Clamp(FDiv(Clamp(Cos(Abs(FSub(atan2(FSub(py, projection.y),
                                        FSub(px, projection.x)),
                                  projection.normal))),
                     F32(1, 2), One),
               dimming),
          0, One)

\* the colour of the strip of a column
StripColor(px, py, projection) ==
    Only({Color(AsU8(FMul(IntToF(projection.color.r), light)),
                AsU8(FMul(IntToF(projection.color.g), light)),
                AsU8(FMul(IntToF(projection.color.b), light)),
                projection.color.a)
          : light \in {Light(px, py, projection)}})

\* a WallStrip that draws in the left half of the screen
WallStrip_LeftHalf(es, px, py, pa, column, angle, projection) ==
    Only({draw_line(es,
                    Point(column, TruncDiv(RENDER_HEIGHT - height, 2)),
                    Point(column, TruncDiv(RENDER_HEIGHT - height, 2) + height),
                    StripColor(px, py, projection), 1)
          : height \in {StripHeight(px, py, pa, angle, projection)}})

\* the strip of a column whose cast hit a wall
WallStrip(es, px, py, pa, column, angle, projection) ==
    Only({draw_line(es,
                    Point(320 + column, TruncDiv(RENDER_HEIGHT - height, 2)),
                    Point(320 + column,
                          TruncDiv(RENDER_HEIGHT - height, 2) + height),
                    StripColor(px, py, projection), 1)
          : height \in {StripHeight(px, py, pa, angle, projection)}})

\* an OnCast that unwraps the projection
OnCast_Unwrap(es, px, py, pa, column, angle, f) ==
    IF f.pc = "some"
    THEN [entries |-> WallStrip(es, px, py, pa, column, angle, f.hit),
          pc |-> "walls"]
    ELSE [entries |-> es, pc |-> "panic"]

\* `if let Some(projection) = self.project(..) { .. }` for the cast f of a
\* column: the entries after it, and "walls" when the loop goes on
OnCast(es, px, py, pa, column, angle, f) ==
    IF f.pc = "some"
    THEN [entries |-> WallStrip(es, px, py, pa, column, angle, f.hit),
          pc |-> "walls"]
    ELSE IF f.pc = "none" THEN [entries |-> es, pc |-> "walls"]
    ELSE [entries |-> es, pc |-> f.pc]

\* the rects of the path of the cast along the heading
PathRects(cells) ==
    [k \in 1 .. Len(cells) |->
        FillRectEntry(Rect(cells[k].column * TileSide, cells[k].row * TileSide,
                           TileSide, TileSide), path_color)]

\* "draw a single line point": the path, and the line to the hit if any
OnLooking(es, px, py, f) ==
    IF f.pc = "some"
    THEN [entries |-> draw_line(es \o PathRects(f.path.cells),
                                PlayerPoint(px, py),
                                PlayerPoint(f.hit.x, f.hit.y),
                                looking_color, 3),
          pc |-> "done"]
    ELSE IF f.pc = "none"
    THEN [entries |-> es \o PathRects(f.path.cells), pc |-> "done"]
    ELSE [entries |-> es, pc |-> f.pc]

----------------------------------------------------------------------------
(* one Level::draw, column by column *)

\* a bordered map, and maps whose border lacks a tile right of the centre or
\* above it
DrawMaps ==
    {MakeMap(Width, Height, {}, {}),
     MakeMap(Width, Height, {Cell(Height - 2, Width - 1)}, {}),
     MakeMap(Width, Height, {Cell(0, 1)}, {})}

\* headings: right, up, and down to the right
DrawHeadings == {0, THREE_FRAC_PI_2, FAdd(FDiv(PI, IntToF(4)), F32(25, 10000))}

\* the player in the middle of any of the maps, or nearer than 1 to the right
\* border of the bordered map
InitDraw ==
    /\ NoHost
    /\ \/ /\ map \in DrawMaps
          /\ player_x = FAdd(IntToF(Width \div 2), F32(1, 2))
       \/ /\ map = MakeMap(Width, Height, {}, {})
          /\ player_x = FAdd(IntToF(Width - 2), F32(7, 10))
    /\ player_y = FAdd(IntToF(Height \div 2), F32(1, 2))
    /\ player_angle \in DrawHeadings
    /\ NoCast
    /\ NoUpdate
    /\ NoBatch
    /\ draw = NoDraw

\* Level::draw up to the wall pass
DrawBegin ==
    /\ draw.pc = "idle"
    /\ entries' = DrawBackground(entries, map, player_x, player_y, player_angle)
    /\ call' = [op |-> "draw", before |-> entries]
    /\ draw' = [NoDraw EXCEPT !.pc = "walls", !.base = Len(entries')]
    /\ UNCHANGED <<levelVars, castVars, updateVars, hostVars>>

\* one column of the wall pass
DrawWallColumn ==
    /\ draw.pc = "walls"
    /\ draw.column < WallColumns
    /\ \E angle \in {ColumnAngle(draw.column, player_angle)} :
       \E f \in {project_run(map, project(angle, player_x, player_y, NoPath))} :
       \E to \in {OnCast(entries, player_x, player_y, player_angle,
                         draw.column, angle, f)} :
          /\ entries' = to.entries
          /\ draw' = [pc      |-> to.pc,
                      column  |-> IF to.pc = "walls" THEN draw.column + 1
                                  ELSE draw.column,
                      cast    |-> f.pc,
                      angle   |-> angle,
                      before  |-> Len(entries),
                      base    |-> draw.base,
                      skipped |-> IF f.pc = "none" THEN draw.skipped + 1
                                  ELSE draw.skipped]
    /\ UNCHANGED <<levelVars, castVars, updateVars, call, hostVars>>

\* the end of Level::draw: the cast along the heading
DrawLooking ==
    /\ draw.pc = "walls"
    /\ draw.column = WallColumns
    /\ \E f \in {project_run(map, project(player_angle, player_x, player_y,
                                         SomePath))} :
       \E to \in {OnLooking(entries, player_x, player_y, f)} :
          /\ entries' = to.entries
          /\ draw' = [draw EXCEPT !.pc = to.pc]
    /\ UNCHANGED <<levelVars, castVars, updateVars, call, hostVars>>

NextDraw == DrawBegin \/ DrawWallColumn \/ DrawLooking

SpecDraw == InitDraw /\ [][NextDraw]_vars

\* C4 as the specification has it: when the cast of a column leaves the grid,
\* draw is in an abort state and composes the frame no further.
C4_LeavingRayAborts ==
    draw.cast = "none" => draw.pc = "panic"

\* C4, amended: when the cast of a column leaves the grid, project returns
\* None and draw skips the column: it appends nothing for it and goes on with
\* the next column, nothing aborts, and the frame ends up with one entry for
\* each column that was not skipped.
C4_LeavingRayIsSkipped ==
    /\ (draw.pc = "walls" /\ draw.cast = "none") =>
          /\ Len(entries) = draw.before
          /\ draw.column > 0
    /\ (draw.pc = "walls" /\ draw.cast = "some") =>
          /\ Len(entries) = draw.before + 1
          /\ entries[Len(entries)].kind = "FillRect"
          /\ entries[Len(entries)].destination.x = 320 + draw.column - 1
    /\ draw.pc = "walls" =>
          Len(entries) = draw.base + draw.column - draw.skipped
    /\ draw.cast = "none" => draw.pc \in {"walls", "done"}

\* a draw ran to its end after it skipped columns and drew others
C4_Witness ==
    /\ draw.pc = "done"
    /\ draw.skipped > 0
    /\ draw.skipped < WallColumns
    /\ draw.column = WallColumns
    /\ ~HasSolidBorder(map)

----------------------------------------------------------------------------
(* the wall pass of Level::draw *)

\* the entries the wall pass has appended so far
WallEntries ==
    SubSeq(entries, draw.base + 1, draw.base + draw.column - draw.skipped)

\* C25: the wall pass of Level::draw appends, in increasing order of the 320
\* columns, exactly one entry for each column whose ray hits and none for a
\* column whose ray returns None; every such entry is a FillRect, never a
\* Line, at x = 320 + column.
C25_WallPassOneFillRectPerHit ==
    draw.pc \in {"walls", "done"} =>
        /\ draw.cast = "some" =>
              /\ Len(WallEntries) > 0
              /\ WallEntries[Len(WallEntries)].destination.x = 320 + draw.column - 1
        /\ (draw.cast = "none" /\ Len(WallEntries) > 0) =>
              WallEntries[Len(WallEntries)].destination.x < 320 + draw.column - 1
        /\ draw.pc = "walls" => Len(entries) = draw.base + Len(WallEntries)
        /\ Len(WallEntries) = draw.column - draw.skipped
        /\ \A k \in 1 .. Len(WallEntries) :
              /\ WallEntries[k].kind = "FillRect"
              /\ WallEntries[k].destination.x \in 320 .. 320 + draw.column - 1
              /\ k > 1 => WallEntries[k - 1].destination.x
                             < WallEntries[k].destination.x

\* a whole wall pass that skipped columns in its middle and drew the others
C25_Witness ==
    /\ draw.pc = "done"
    /\ draw.column = WallColumns
    /\ draw.skipped > 0
    /\ Len(WallEntries) > 100
    /\ \E k \in 2 .. Len(WallEntries) :
          WallEntries[k].destination.x > WallEntries[k - 1].destination.x + 1

\* the hit of the latest column's cast
LatestHit ==
    project_run(map, project(draw.angle, player_x, player_y, NoPath)).hit
\* max(distance, 1) for the latest column
LatestDistance ==
    Max(Distance(player_x, player_y, player_angle, draw.angle, LatestHit), One)

\* C26: the height of every wall strip is RENDER_HEIGHT / max(distance, 1),
\* in the floats' arithmetic RENDER_HEIGHT * (1 / max(distance, 1)), truncated
\* to an integer, so 0 <= height <= RENDER_HEIGHT, and the strip is
\* vertically centred: its top is (RENDER_HEIGHT - height) / 2 >= 0 and its
\* bottom is top + height <= RENDER_HEIGHT.
C26_StripHeightAndCentre ==
    /\ (draw.pc = "walls" /\ draw.cast = "some") =>
          /\ entries[Len(entries)].destination.h
                = AsI32(FMul(IntToF(RENDER_HEIGHT), FDiv(One, LatestDistance)))
    /\ draw.pc \in {"walls", "done"} =>
          \A k \in 1 .. Len(WallEntries) :
              /\ WallEntries[k].destination.w = 1
              /\ 0 <= WallEntries[k].destination.h
              /\ WallEntries[k].destination.h <= RENDER_HEIGHT
              /\ WallEntries[k].destination.y
                    = TruncDiv(RENDER_HEIGHT - WallEntries[k].destination.h, 2)
              /\ WallEntries[k].destination.y >= 0
              /\ WallEntries[k].destination.y + WallEntries[k].destination.h
                    <= RENDER_HEIGHT

\* a wall pass with strips of the whole height, for a wall nearer than 1,
\* and lower strips for walls farther off
C26_Witness ==
    /\ draw.pc = "done"
    /\ \E k \in 1 .. Len(WallEntries) :
          /\ WallEntries[k].destination.h = RENDER_HEIGHT
          /\ WallEntries[k].destination.y = 0
    /\ \E k \in 1 .. Len(WallEntries) :
          /\ WallEntries[k].destination.h > 0
          /\ WallEntries[k].destination.h < RENDER_HEIGHT - 50
          /\ WallEntries[k].destination.y > 25

----------------------------------------------------------------------------
(* the scenes and the StageManager *)

\* RenderContext::logical_area
logical_area == Rect(0, 0, RENDER_WIDTH, RENDER_HEIGHT)

\* WgpuRenderer::load_sprite: the texture atlas, whatever the path is; the size
\* of the atlas comes from the image file
load_sprite == Sprite(0, Rect(0, 0, 64, 64))

\* Font.char_width, Font.char_height
char_width == 64
char_height == 64

\* TileSet::get_source_rect for the font; the layout of the tiles comes from
\* the font's file
get_source_rect(index) == Rect(8 * (index % 16), 8 * (index \div 16), 8, 8)

RECURSIVE draw_string(_, _, _)
\* Font::draw_string of the characters s (as their codes) at pos
draw_string(es, pos, s) ==
    IF s = <<>> THEN es
    ELSE IF bottom(Rect(pos.x, pos.y, char_width, char_height)) <= 0
            \/ right(Rect(pos.x, pos.y, char_width, char_height)) <= 0
    THEN draw_string(es, pos, Tail(s))
    ELSE draw_string(
             batch_draw(es, load_sprite,
                        Rect(pos.x, pos.y, char_width, char_height),
                        get_source_rect(IF Head(s) < 127 THEN Head(s) ELSE 127),
                        FALSE),
             Point(pos.x + char_width, pos.y), Tail(s))

\* Menu.text: None for Menu::new_splash, "hello world" for the kill screen
\* that Level::update asks for
MenuText(scene) ==
    IF scene = "KillScreen"
    THEN <<104, 101, 108, 108, 111, 32, 119, 111, 114, 108, 100>>
    ELSE <<>>

\* Menu.buttons: the positions given to add_button
MenuButtons(scene) ==
    IF scene = "KillScreen"
    THEN <<Rect(800 - 197, 450, 394, 145), Rect(800 - 197, 650, 394, 145)>>
    ELSE <<Rect(60, 80, 394, 145)>>

\* Menu::draw: what it adds to the player batch before the previous scene
MenuFill(es) == fill_rect(es, logical_area, Color(51, 0, 51, 255))

\* UiButton::draw of each button, none of them clicked
ButtonsDraw(es, buttons) ==
    es \o [k \in 1 .. Len(buttons) |->
              SpriteEntry(load_sprite,
                          Rect(0, 0, load_sprite.area.w, load_sprite.area.h),
                          buttons[k], FALSE)]

\* Cursor::draw with the cursor where Cursor::new puts it
CursorDraw(es) ==
    batch_draw(es, load_sprite, rect_add(Rect(0, 0, 64, 64), Point(0, 0)),
               Rect(0, 0, 64, 64), FALSE)

\* Menu::draw: what it adds to the HUD batch
MenuHud(es, scene) ==
    CursorDraw(
        ButtonsDraw(
            IF MenuText(scene) = <<>>
            THEN batch_draw(es, load_sprite, logical_area,
                            Rect(0, 0, 1600, 900), FALSE)
            ELSE draw_string(
                     batch_draw(es, load_sprite, logical_area,
                                Rect(0, 0, 1600, 900), FALSE),
                     Point(TruncDiv(RENDER_WIDTH
                                    - Len(MenuText(scene)) * char_width, 2),
                           250),
                     MenuText(scene)),
            MenuButtons(scene)))

\* a cancel action that pops the splash menu
cancel_action_Pop(scene) == IF scene = "Splash" THEN "pop" ELSE "level"

\* Menu.cancel_action as new_splash and new_kill_screen set it
cancel_action(scene) == IF scene = "Splash" THEN "menu" ELSE "level"

\* the actions of Menu.buttons as new_splash and new_kill_screen add them
ButtonActions(scene) ==
    IF scene = "Splash" THEN <<"level">> ELSE <<"level", "menu">>

\* Menu::perform_action: the SceneResult of an action, or "None"
perform_action(action) ==
    CASE action = "level" -> "PushLevel"
      [] action = "menu" -> "PushMenu"
      [] action = "pop" -> "Pop"
      [] action = "pop2" -> "PopTwo"
      [] action = "reload" -> "ReloadLevel"
      [] OTHER -> "None"

\* the action of the last button among those that reported a click, if any
ClickedAction(scene, clicked) ==
    IF clicked = {} THEN "none"
    ELSE ButtonActions(scene)[CHOOSE i \in clicked : \A j \in clicked : j <= i]

\* Menu::update: what it returns when cancel is clicked or not and the
\* buttons in `clicked` report a click
menu_update(scene, cancel_clicked, clicked) ==
    IF cancel_clicked /\ perform_action(cancel_action(scene)) # "None"
    THEN perform_action(cancel_action(scene))
    ELSE IF clicked # {}
            /\ perform_action(ClickedAction(scene, clicked)) # "None"
    THEN perform_action(ClickedAction(scene, clicked))
    ELSE "Continue"

\* Menu::update: the results its cancel action and its buttons lead to
MenuResults(scene) ==
    {menu_update(scene, cancel_clicked, clicked) :
        cancel_clicked \in BOOLEAN,
        clicked \in SUBSET (1 .. Len(ButtonActions(scene)))}

\* a StageManager::update whose Pop takes the oldest scene of the stack
StageUpdate_Fifo(current, stack, r) ==
    CASE r = "Continue" ->
            [ok |-> TRUE, current |-> current, stack |-> stack]
      [] r = "Pop" ->
            IF stack # <<>>
            THEN [ok |-> TRUE, current |-> stack[1], stack |-> Tail(stack)]
            ELSE [ok |-> FALSE, current |-> current, stack |-> stack]
      [] r = "PopTwo" ->
            IF Len(stack) >= 2
            THEN [ok |-> TRUE, current |-> stack[Len(stack) - 1],
                  stack |-> SubSeq(stack, 1, Len(stack) - 2)]
            ELSE [ok |-> FALSE, current |-> current, stack |-> <<>>]
      [] r = "PushLevel" ->
            [ok |-> TRUE, current |-> "Level", stack |-> Append(stack, current)]
      [] r = "ReloadLevel" ->
            [ok |-> TRUE, current |-> "Level",
             stack |-> SubSeq(stack, 1, Len(stack) - 1)]
      [] r = "PushMenu" ->
            [ok |-> TRUE, current |-> "Splash", stack |-> Append(stack, current)]
      [] r = "PushKillScreen" ->
            [ok |-> TRUE, current |-> "KillScreen",
             stack |-> Append(stack, current)]
      [] r = "PushPause" ->
            [ok |-> TRUE, current |-> "Splash", stack |-> Append(stack, current)]

\* StageManager::update: the match on the scene's result
StageUpdate(current, stack, r) ==
    CASE r = "Continue" ->
            [ok |-> TRUE, current |-> current, stack |-> stack]
      [] r = "Pop" ->
            IF stack # <<>>
            THEN [ok |-> TRUE, current |-> stack[Len(stack)],
                  stack |-> SubSeq(stack, 1, Len(stack) - 1)]
            ELSE [ok |-> FALSE, current |-> current, stack |-> stack]
      [] r = "PopTwo" ->
            IF Len(stack) >= 2
            THEN [ok |-> TRUE, current |-> stack[Len(stack) - 1],
                  stack |-> SubSeq(stack, 1, Len(stack) - 2)]
            ELSE [ok |-> FALSE, current |-> current, stack |-> <<>>]
      [] r = "PushLevel" ->
            [ok |-> TRUE, current |-> "Level", stack |-> Append(stack, current)]
      [] r = "ReloadLevel" ->
            [ok |-> TRUE, current |-> "Level",
             stack |-> SubSeq(stack, 1, Len(stack) - 1)]
      [] r = "PushMenu" ->
            [ok |-> TRUE, current |-> "Splash", stack |-> Append(stack, current)]
      [] r = "PushKillScreen" ->
            [ok |-> TRUE, current |-> "KillScreen",
             stack |-> Append(stack, current)]
      [] r = "PushPause" ->
            [ok |-> TRUE, current |-> "Splash", stack |-> Append(stack, current)]

----------------------------------------------------------------------------
(* the main loop of run, step by step *)

MaxFrames == 2

\* the order of the loop body
FrameOrder == <<"update", "clear", "draw", "render">>

\* a loop body that draws before it clears
StepAfter_DrawFirst(step, ok) ==
    CASE step = "update" -> IF ok THEN "draw" ELSE "exit"
      [] step = "draw" -> "clear"
      [] step = "clear" -> "render"
      [] step = "render" -> "top"

\* the step of the loop body that follows a step; ok is what
\* stage_manager.update returned
StepAfter(step, ok) ==
    CASE step = "update" -> IF ok THEN "clear" ELSE "exit"
      [] step = "clear" -> "draw"
      [] step = "draw" -> "render"
      [] step = "render" -> "top"

\* the level's inputs in the loop: nothing held, and ok clicked
LoopInputs == {Held({}), Held({"ok_clicked"})}

InitLoop ==
    /\ map = MakeMap(Width, Height, {}, {})
    /\ player_x = FAdd(IntToF(Width \div 2), F32(1, 2))
    /\ player_y = FAdd(IntToF(Height \div 2), F32(1, 2))
    /\ player_angle = 0
    /\ NoCast
    /\ NoUpdate
    /\ NoBatch
    /\ draw = NoDraw
    /\ render = NoRender
    /\ eval = NoEval
    /\ loop = [NoLoop EXCEPT !.pc = "top"]

\* the top of the loop: RenderContext::new, and the events polled
LoopTop ==
    /\ loop.pc = "top"
    /\ loop.frame < MaxFrames
    /\ entries' = <<>>
    /\ call' = NoCall
    /\ \E quit \in BOOLEAN :
          loop' = [loop EXCEPT !.hud = <<>>, !.trace = <<>>, !.dpc = "start",
                               !.pc = IF quit THEN "exit" ELSE "update",
                               !.stop = IF quit THEN "quit" ELSE "none"]
    /\ UNCHANGED <<levelVars, castVars, updateVars, draw, render, eval>>

\* the loop after stage_manager.update returned
AfterUpdate(to) ==
    [loop EXCEPT !.current = to.current, !.stack = to.stack,
                 !.trace = Append(@, "update"),
                 !.pc = StepAfter("update", to.ok),
                 !.stop = IF to.ok THEN "none" ELSE "update"]

\* stage_manager.update with the level as the current scene
LoopUpdateLevel ==
    /\ loop.pc = "update"
    /\ loop.current = "Level"
    /\ \E in \in LoopInputs : LevelUpdate(in)
    /\ loop' = AfterUpdate(StageUpdate(loop.current, loop.stack, result'))
    /\ UNCHANGED <<castVars, batchVars, draw, render, eval>>

\* stage_manager.update with a menu as the current scene
LoopUpdateMenu ==
    /\ loop.pc = "update"
    /\ loop.current # "Level"
    /\ \E r \in MenuResults(loop.current) :
          /\ result' = r
          /\ loop' = AfterUpdate(StageUpdate(loop.current, loop.stack, r))
    /\ UNCHANGED <<levelVars, castVars, inputs, last, frames, batchVars, draw,
                   render, eval>>

\* context.clear()
LoopClear ==
    /\ loop.pc = "clear"
    /\ entries' = <<>>
    /\ call' = [NoCall EXCEPT !.op = "clear"]
    /\ loop' = [loop EXCEPT !.hud = <<>>, !.trace = Append(@, "clear"),
                            !.pc = StepAfter("clear", TRUE)]
    /\ UNCHANGED <<levelVars, castVars, updateVars, draw, render, eval>>

\* the scene StageManager::draw passes as previous
Previous == IF loop.stack = <<>> THEN "None" ELSE loop.stack[Len(loop.stack)]

\* stage_manager.draw: the current scene's draw up to the level's part
LoopDrawStart ==
    /\ loop.pc = "draw"
    /\ loop.dpc = "start"
    /\ entries' = IF loop.current = "Level" THEN entries
                  ELSE IF Previous \in {"Splash", "KillScreen"}
                  THEN MenuFill(MenuFill(entries))
                  ELSE MenuFill(entries)
    /\ call' = [op |-> "draw", before |-> entries]
    /\ loop' = [loop EXCEPT
                  !.trace = Append(@, "draw"),
                  !.start_player = entries,
                  !.start_hud = loop.hud,
                  !.hud = IF loop.current # "Level"
                             /\ Previous \in {"Splash", "KillScreen"}
                          THEN MenuHud(@, Previous) ELSE @,
                  !.dpc = IF loop.current = "Level" \/ Previous = "Level"
                          THEN "level" ELSE "hud"]
    /\ UNCHANGED <<levelVars, castVars, updateVars, draw, render, eval>>

\* Level::draw, for the level itself or as the scene behind a menu
LoopDrawLevel ==
    /\ loop.pc = "draw"
    /\ loop.dpc = "level"
    /\ (DrawBegin \/ DrawWallColumn \/ DrawLooking)

\* Level::draw returned
LoopDrawLevelDone ==
    /\ loop.pc = "draw"
    /\ loop.dpc = "level"
    /\ draw.pc = "done"
    /\ draw' = NoDraw
    /\ loop' = IF loop.current = "Level"
               THEN [loop EXCEPT !.pc = StepAfter("draw", TRUE)]
               ELSE [loop EXCEPT !.dpc = "hud"]
    /\ UNCHANGED <<levelVars, castVars, updateVars, batchVars, render, eval>>

\* the rest of Menu::draw: the HUD batch
LoopDrawHud ==
    /\ loop.pc = "draw"
    /\ loop.dpc = "hud"
    /\ loop' = [loop EXCEPT !.hud = MenuHud(@, loop.current),
                            !.pc = StepAfter("draw", TRUE)]
    /\ UNCHANGED <<levelVars, castVars, updateVars, batchVars, draw, render,
                   eval>>

\* renderer.render(&context), and the end of the loop body
LoopRender ==
    /\ loop.pc = "render"
    /\ loop' = [loop EXCEPT !.player_seen = entries, !.hud_seen = loop.hud,
                            !.trace = Append(@, "render"),
                            !.frame = @ + 1,
                            !.pc = StepAfter("render", TRUE)]
    /\ UNCHANGED <<levelVars, castVars, updateVars, batchVars, draw, render,
                   eval>>

NextLoop ==
    \/ LoopTop
    \/ LoopUpdateLevel
    \/ LoopUpdateMenu
    \/ LoopClear
    \/ LoopDrawStart
    \/ LoopDrawLevel
    \/ LoopDrawLevelDone
    \/ LoopDrawHud
    \/ LoopRender

SpecLoop == InitLoop /\ [][NextLoop]_vars

\* C13: a frame goes update, clear, draw, render; when its draw starts the
\* player batch and the HUD batch are empty, so the renderer gets the entries
\* of that frame's draw alone; a frame whose update said to stop has no draw.
C13_FrameOrder ==
    /\ Len(loop.trace) <= Len(FrameOrder)
    /\ \A k \in 1 .. Len(loop.trace) : loop.trace[k] = FrameOrder[k]
    /\ (\E k \in 1 .. Len(loop.trace) : loop.trace[k] = "draw") =>
          /\ loop.start_player = <<>>
          /\ loop.start_hud = <<>>
    /\ (\E k \in 1 .. Len(loop.trace) : loop.trace[k] = "render") =>
          /\ loop.player_seen = entries
          /\ loop.hud_seen = loop.hud
          /\ entries # <<>>
    /\ loop.stop # "none" =>
          /\ loop.pc = "exit"
          /\ \A k \in 1 .. Len(loop.trace) : loop.trace[k] = "update"

\* the second frame went through its four steps with the kill screen over the
\* level: the renderer got the menu's fill, the level's frame and the menu's
\* four HUD entries
C13_Witness ==
    /\ loop.frame = 2
    /\ loop.trace = FrameOrder
    /\ loop.current = "KillScreen"
    /\ Len(loop.hud_seen) = 4
    /\ Len(loop.player_seen) > WallColumns
    /\ loop.player_seen[1] = FillRectEntry(logical_area, Color(51, 0, 51, 255))

----------------------------------------------------------------------------
(* Rect::intersects, Rect::contains and Rect + Point on their arguments *)

\* rectangles around the origin, empty ones among them, and the one of the
\* tests
GeomRects ==
    {Rect(x, y, w, h) : x \in {-1, 0, 2}, y \in {0, 2}, w \in {0, 1, 2},
                        h \in {0, 2}}
    \cup {Rect(10, 20, 3, 4)}

\* points in, on and around them, and the ones of the tests
GeomPoints ==
    {Point(x, y) : x \in -2 .. 5, y \in {-1, 0, 1, 2, 4, 5}}
    \cup {Point(100, 200), Point(10, 20), Point(13, 24), Point(13, 25)}

\* the arguments: a rectangle and another rectangle, or a rectangle and a point
InitGeom ==
    /\ map = MakeMap(Width, Height, {}, {})
    /\ InitLevelUnused
    /\ NoCast
    /\ NoUpdate
    /\ NoBatch
    /\ draw = NoDraw
    /\ render = NoRender
    /\ loop = NoLoop
    /\ \E a \in GeomRects :
          \/ \E b \in GeomRects :
                eval = [op |-> "none", a |-> a, b |-> b, p |-> Point(0, 0),
                        with |-> "rect", out |-> FALSE, back |-> FALSE]
          \/ \E p \in GeomPoints :
                eval = [op |-> "none", a |-> a, b |-> a, p |-> p,
                        with |-> "point", out |-> FALSE, back |-> FALSE]

\* a.intersects(b), and b.intersects(a)
Intersects ==
    /\ eval.op = "none"
    /\ eval.with = "rect"
    /\ eval' = [eval EXCEPT !.op = "intersects",
                            !.out = intersects(eval.a, eval.b),
                            !.back = intersects(eval.b, eval.a)]
    /\ UNCHANGED <<levelVars, castVars, updateVars, batchVars, draw, render, loop>>

\* a.contains(p)
Contains ==
    /\ eval.op = "none"
    /\ eval.with = "point"
    /\ eval' = [eval EXCEPT !.op = "contains",
                            !.out = contains(eval.a, eval.p)]
    /\ UNCHANGED <<levelVars, castVars, updateVars, batchVars, draw, render, loop>>

\* a + p
RectAdd ==
    /\ eval.op = "none"
    /\ eval.with = "point"
    /\ eval' = [eval EXCEPT !.op = "add",
                            !.out = rect_add(eval.a, eval.p)]
    /\ UNCHANGED <<levelVars, castVars, updateVars, batchVars, draw, render, loop>>

NextGeom == Intersects \/ Contains \/ RectAdd

SpecGeom == InitGeom /\ [][NextGeom]_vars

\* the closed rectangles a and b have a point in common
ShareAPoint(a, b) ==
    /\ \E x \in a.x .. a.x + a.w : x \in b.x .. b.x + b.w
    /\ \E y \in a.y .. a.y + a.h : y \in b.y .. b.y + b.h

\* a and b have a point in common, and only on an edge of a that is an edge
\* of b: a's right is b's left, or a's bottom is b's top
OnlyTouch(a, b) ==
    /\ ShareAPoint(a, b)
    /\ a.x + a.w = b.x \/ a.y + a.h = b.y

\* C16: intersects is symmetric, a.intersects(b) = b.intersects(a), and its
\* intervals are closed: rectangles that only touch, along an edge or at one
\* corner point, intersect.
C16_IntersectsSymmetricClosed ==
    eval.op = "intersects" =>
        /\ eval.out = eval.back
        /\ eval.out = ShareAPoint(eval.a, eval.b)
        /\ OnlyTouch(eval.a, eval.b) => eval.out

\* two rectangles that meet in the one corner point (2, 2)
C16_Witness ==
    /\ eval.op = "intersects"
    /\ eval.a = Rect(0, 0, 2, 2)
    /\ eval.b = Rect(2, 2, 1, 2)
    /\ eval.out
    /\ eval.back

\* C17: contains(p) is true exactly when left <= p.x <= right and
\* top <= p.y <= bottom, with right = x + w and bottom = y + h: the points of
\* all four edges are contained.
C17_ContainsClosedBounds ==
    eval.op = "contains" =>
        /\ eval.out = (/\ eval.p.x \in eval.a.x .. eval.a.x + eval.a.w
                       /\ eval.p.y \in eval.a.y .. eval.a.y + eval.a.h)
        /\ right(eval.a) = eval.a.x + eval.a.w
        /\ bottom(eval.a) = eval.a.y + eval.a.h
        /\ left(eval.a) = eval.a.x
        /\ top(eval.a) = eval.a.y
        /\ (/\ eval.p.x \in {left(eval.a), right(eval.a)}
            /\ eval.p.y \in {top(eval.a), bottom(eval.a)}) => eval.out

\* the bottom right corner of the rectangle of the tests is contained
C17_Witness ==
    /\ eval.op = "contains"
    /\ eval.a = Rect(10, 20, 3, 4)
    /\ eval.p = Point(13, 24)
    /\ eval.out

\* C18: r + p has x = r.x + p.x and y = r.y + p.y and the w and h of r: left
\* and right move by p.x, top and bottom by p.y.
C18_RectAddPointTranslates ==
    eval.op = "add" =>
        /\ eval.out.x = eval.a.x + eval.p.x
        /\ eval.out.y = eval.a.y + eval.p.y
        /\ eval.out.w = eval.a.w
        /\ eval.out.h = eval.a.h
        /\ left(eval.out) = left(eval.a) + eval.p.x
        /\ right(eval.out) = right(eval.a) + eval.p.x
        /\ top(eval.out) = top(eval.a) + eval.p.y
        /\ bottom(eval.out) = bottom(eval.a) + eval.p.y

\* the translation of the tests: (10, 20, 3, 4) + (100, 200)
C18_Witness ==
    /\ eval.op = "add"
    /\ eval.a = Rect(10, 20, 3, 4)
    /\ eval.p = Point(100, 200)
    /\ eval.out = Rect(110, 220, 3, 4)
    /\ right(eval.out) = 113
    /\ bottom(eval.out) = 224

----------------------------------------------------------------------------
(* create_random_map, and the level it gives under the Level operations *)

\* `Map { tiles, width, height }` of a Vec of rows: tiles[r][c] is the tile
\* at index c of the row at index r
Map(rows, width, height) ==
    [tiles  |-> [r \in 0 .. Len(rows) - 1 |->
                    [c \in 0 .. Len(rows[r + 1]) - 1 |-> rows[r + 1][c + 1]]],
     width  |-> width,
     height |-> height]

\* what the random numbers of create_random_row make of one tile
RandomTiles == {Empty, Solid(WallColor)}

\* full_row of create_random_map
full_row(width, border_color) == [c \in 1 .. width |-> Solid(border_color)]

\* a create_random_row that leaves the row open at its end
create_random_row_Open(width, border_color, random) ==
    <<Solid(border_color)>> \o SubSeq(random, 1, width - 2) \o <<Empty>>

\* create_random_row(width, border_color); random lists the tiles the random
\* numbers give, of which it takes width - 2
create_random_row(width, border_color, random) ==
    <<Solid(border_color)>> \o SubSeq(random, 1, width - 2)
                            \o <<Solid(border_color)>>

\* create_random_map(width, height); random lists, row by row, the tiles the
\* random numbers give
create_random_map(width, height, random) ==
    Map(<<full_row(width, BorderColor)>>
        \o [k \in 1 .. height - 2 |->
               create_random_row(width, BorderColor, random[k])]
        \o <<full_row(width, BorderColor)>>,
        width, height)

\* the widths and heights tried
MapSides == {2, 3, 4}

\* the keys held in the updates of the created level
CreateInputs ==
    {Held({"player_forward_down"}), Held({"player_turn_left_down"}),
     Held({"player_strafe_right_down", "player_backward_down"})}

InitCreate ==
    /\ map = [tiles |-> <<>>, width |-> 0, height |-> 0]
    /\ InitLevelUnused
    /\ NoCast
    /\ NoUpdate
    /\ NoBatch
    /\ draw = NoDraw
    /\ NoHost

\* Level::new with a map of any size: create_random_map, the player in the
\* middle of it
CreateRandomMap ==
    /\ eval.op = "none"
    /\ \E width \in MapSides, height \in MapSides :
       \E random \in [1 .. height - 2 -> [1 .. width - 2 -> RandomTiles]] :
          /\ map' = create_random_map(width, height, random)
          /\ player_x' = FAdd(IntToF(width \div 2), F32(1, 2))
          /\ player_y' = FAdd(IntToF(height \div 2), F32(1, 2))
          /\ player_angle' = 0
          /\ eval' = [op |-> "create_random_map", width |-> width,
                      height |-> height, map |-> map']
    /\ UNCHANGED <<castVars, updateVars, batchVars, draw, render, loop>>

\* Level::update on the created level
CreateUpdate ==
    /\ eval.op = "create_random_map"
    /\ cast.pc = "idle"
    /\ draw.pc \in {"idle", "done"}
    /\ frames < MaxUpdates
    /\ \E in \in CreateInputs : UpdateWith(in)

\* Level::project along the heading, on the created level
CreateProject ==
    /\ eval.op = "create_random_map"
    /\ cast.pc = "idle"
    /\ draw.pc \in {"idle", "done"}
    /\ cast' = project(player_angle, player_x, player_y, SomePath)
    /\ bare' = project(player_angle, player_x, player_y, NoPath)
    /\ UNCHANGED <<levelVars, updateVars, batchVars, draw, hostVars>>

\* Level::draw of the created level, before its first update
CreateDraw ==
    /\ eval.op = "create_random_map"
    /\ cast.pc = "idle"
    /\ frames = 0
    /\ (DrawBegin \/ DrawWallColumn \/ DrawLooking)

NextCreate ==
    \/ CreateRandomMap
    \/ CreateUpdate
    \/ CreateProject
    \/ Project2
    \/ CreateDraw

SpecCreate == InitCreate /\ [][NextCreate]_vars

\* C19: create_random_map(width, height) with width, height >= 2 gives
\* `height` rows of `width` tiles each whose first and last row and first and
\* last column are Solid, whatever the random numbers are; update, draw,
\* project and can_move_to leave every tile as it was created.
C19_CreatedMapBorderedAndFixed ==
    eval.op = "create_random_map" =>
        /\ map.width = eval.width
        /\ map.height = eval.height
        /\ DOMAIN map.tiles = 0 .. eval.height - 1
        /\ \A r \in DOMAIN map.tiles : DOMAIN map.tiles[r] = 0 .. eval.width - 1
        /\ \A r \in 0 .. eval.height - 1 : \A c \in 0 .. eval.width - 1 :
              (r = 0 \/ r = eval.height - 1 \/ c = 0 \/ c = eval.width - 1) =>
                  map.tiles[r][c].kind = "Solid"
        /\ map = eval.map

\* a 4 x 3 map with a wall and an empty tile inside, after an update, a cast
\* and a draw
C19_Witness ==
    /\ eval.op = "create_random_map"
    /\ eval.width = 4
    /\ eval.height = 3
    /\ map.tiles[1][1].kind = "Solid"
    /\ map.tiles[1][2].kind = "Empty"
    /\ frames > 0
    /\ cast.pc = "some"
    /\ draw.pc = "done"

----------------------------------------------------------------------------
(* Color::from_str *)

\* a &str is the sequence of its UTF-8 bytes; "C3" and "A9" are the two bytes
\* of one character outside ASCII, every other byte is a character of its own
ContinuationBytes == {"A9"}

LowerHex == <<"0", "1", "2", "3", "4", "5", "6", "7", "8", "9",
              "a", "b", "c", "d", "e", "f">>
UpperHex == <<"0", "1", "2", "3", "4", "5", "6", "7", "8", "9",
              "A", "B", "C", "D", "E", "F">>

\* char::to_digit(16)
IsHexDigit(ch) == \E k \in 1 .. 16 : LowerHex[k] = ch \/ UpperHex[k] = ch
HexValue(ch) == (CHOOSE k \in 1 .. 16 : LowerHex[k] = ch \/ UpperHex[k] = ch) - 1

\* str::strip_prefix('#').unwrap_or(s)
strip_prefix(s) == IF s # <<>> /\ Head(s) = "#" THEN Tail(s) ELSE s

\* byte offset i of s is a character boundary
IsCharBoundary(s, i) ==
    i = 0 \/ i = Len(s) \/ (i < Len(s) /\ s[i + 1] \notin ContinuationBytes)

\* u8::from_str_radix(src, 16) of a two-byte str: an optional "+", then digits
from_str_radix(src) ==
    IF src[1] = "+"
    THEN IF IsHexDigit(src[2])
         THEN [kind |-> "Ok", value |-> HexValue(src[2])]
         ELSE [kind |-> "Err", value |-> 0]
    ELSE IF IsHexDigit(src[1]) /\ IsHexDigit(src[2])
         THEN [kind |-> "Ok", value |-> 16 * HexValue(src[1]) + HexValue(src[2])]
         ELSE [kind |-> "Err", value |-> 0]

\* `u8::from_str_radix(&s[from..from + 2], 16)`: the slice panics when an end
\* of it is not a character boundary
Pair(s, from) ==
    IF IsCharBoundary(s, from) /\ IsCharBoundary(s, from + 2)
    THEN from_str_radix(SubSeq(s, from + 1, from + 2))
    ELSE [kind |-> "Panic", value |-> 0]

NoParse(kind) == [kind |-> kind, color |-> NoColor]

RECURSIVE Pairs(_, _, _)
\* the pairs of s from byte k on, one `?` after the other, after the values
\* got so far
Pairs(s, k, got) ==
    IF k >= Len(s) THEN [kind |-> "Ok", values |-> got]
    ELSE IF Pair(s, k).kind # "Ok"
    THEN [kind |-> Pair(s, k).kind, values |-> got]
    ELSE Pairs(s, k + 2, Append(got, Pair(s, k).value))

\* <Color as FromStr>::from_str
from_str(str) ==
    LET s == strip_prefix(str)
        p == Pairs(s, 0, <<>>)
    IN  IF Len(s) = 6
        THEN IF p.kind = "Ok"
             THEN [kind |-> "Ok",
                   color |-> Color(p.values[1], p.values[2], p.values[3], 255)]
             ELSE NoParse(p.kind)
        ELSE IF Len(s) = 8
        THEN IF p.kind = "Ok"
             THEN [kind |-> "Ok",
                   color |-> Color(p.values[2], p.values[3], p.values[4],
                                   p.values[1])]
             ELSE NoParse(p.kind)
        ELSE NoParse("Err")

\* the strings tried: with and without '#', an odd byte in front or at the
\* end or neither, and up to four of these pairs of bytes in between
ColorUnits ==
    {<<"1", "f">>, <<"A", "0">>, <<"+", "7">>, <<"g", "1">>, <<"-", "1">>,
     <<"C3", "A9">>}
RECURSIVE ColorBodies(_)
ColorBodies(n) ==
    IF n = 0 THEN {<<>>}
    ELSE {u \o b : u \in ColorUnits, b \in ColorBodies(n - 1)}
ColorStrings ==
    {hash \o front \o body \o back :
        hash \in {<<>>, <<"#">>}, front \in {<<>>, <<"0">>},
        body \in UNION {ColorBodies(n) : n \in 0 .. 4},
        back \in {<<>>, <<"9">>}}

InitColor ==
    /\ map = MakeMap(Width, Height, {}, {})
    /\ InitLevelUnused
    /\ NoCast
    /\ NoUpdate
    /\ NoBatch
    /\ draw = NoDraw
    /\ render = NoRender
    /\ loop = NoLoop
    /\ \E s \in ColorStrings : eval = [op |-> "none", s |-> s]

\* Color::from_str(s)
FromStr ==
    /\ eval.op = "none"
    /\ eval' = [op |-> "from_str", s |-> eval.s, out |-> from_str(eval.s)]
    /\ UNCHANGED <<levelVars, castVars, updateVars, batchVars, draw, render, loop>>

NextColor == FromStr

SpecColor == InitColor /\ [][NextColor]_vars

\* the string without its leading '#'
Digits(s) == IF s # <<>> /\ s[1] = "#" THEN SubSeq(s, 2, Len(s)) ELSE s
AllHex(s) == \A k \in 1 .. Len(s) : IsHexDigit(s[k])
Byte(s, k) == 16 * HexValue(s[k]) + HexValue(s[k + 1])

\* C20: with or without a leading '#', exactly 6 hex digits RRGGBB give
\* (r, g, b) with a = 255, exactly 8 hex digits AARRGGBB give a from the first
\* pair, then r, g, b; any other length, or a digit that is not a hex digit,
\* gives an error and no Color.
C20_ColorParse ==
    eval.op = "from_str" =>
        LET d == Digits(eval.s)
        IN  IF AllHex(d) /\ Len(d) = 6
            THEN eval.out = [kind |-> "Ok",
                             color |-> Color(Byte(d, 1), Byte(d, 3), Byte(d, 5),
                                             255)]
            ELSE IF AllHex(d) /\ Len(d) = 8
            THEN eval.out = [kind |-> "Ok",
                             color |-> Color(Byte(d, 3), Byte(d, 5), Byte(d, 7),
                                             Byte(d, 1))]
            ELSE eval.out = NoParse("Err")

\* what does hold: hex digits alone are parsed as the claim says, and a
\* string that is not 6 or 8 bytes long after its '#' is an error
ColorParseOfHexDigits ==
    eval.op = "from_str" =>
        LET d == Digits(eval.s)
        IN  /\ (AllHex(d) /\ Len(d) = 6) =>
                  eval.out = [kind |-> "Ok",
                              color |-> Color(Byte(d, 1), Byte(d, 3),
                                              Byte(d, 5), 255)]
            /\ (AllHex(d) /\ Len(d) = 8) =>
                  eval.out = [kind |-> "Ok",
                              color |-> Color(Byte(d, 3), Byte(d, 5),
                                              Byte(d, 7), Byte(d, 1))]
            /\ Len(d) \notin {6, 8} => eval.out = NoParse("Err")

----------------------------------------------------------------------------
(* the level under longer walks: updates with movement keys from places
   next to walls *)

MaxWalk == 4

WalkInputs ==
    {Held({"player_forward_down"}), Held({"player_backward_down"}),
     Held({"player_strafe_left_down"}), Held({"player_strafe_right_down"}),
     Held({"player_forward_down", "player_strafe_right_down"}),
     Held({"player_backward_down", "player_turn_right_down"}),
     Held({"ok_clicked", "player_forward_down", "player_turn_right_down"})}

\* a bordered map with a wall right of the centre, and one with walls above
\* and below the centre as well
WalkMaps ==
    {MakeMap(Width, Height, {}, {Cell(Height \div 2, Width \div 2 + 1)}),
     MakeMap(Width, Height, {},
             {Cell(Height \div 2 - 1, Width \div 2), Cell(Height \div 2 + 1, Width \div 2)})}

\* the centre of the map, a place two steps from the left border's margin and
\* the corner place close to two borders
WalkPlaces ==
    {<<FAdd(IntToF(Width \div 2), F32(1, 2)), FAdd(IntToF(Height \div 2), F32(1, 2))>>,
     <<F32(148, 100), FAdd(IntToF(Height \div 2), F32(1, 2))>>,
     <<F32(142, 100), F32(142, 100)>>}

WalkHeadings == {0, F32(7853982, 10000000)}

InitWalk ==
    /\ NoHost
    /\ map \in WalkMaps
    /\ \E p \in WalkPlaces : player_x = p[1] /\ player_y = p[2]
    /\ player_angle \in WalkHeadings
    /\ NoCast
    /\ NoUpdate
    /\ NoBatch
    /\ draw = NoDraw

Walk ==
    /\ frames < MaxWalk
    /\ \E in \in WalkInputs : UpdateWith(in)

NextWalk == Walk

SpecWalk == InitWalk /\ [][NextWalk]_vars

\* the collision condition on a place (x, y) inside the grid, in the claim's
\* words: the occupied cell is Empty, and the neighbour on a side is Empty
\* whenever the offset on that axis is beyond the threshold on that side
Clear_Of(m, r, c) == InGrid(m, r, c) /\ IsEmpty(m, r, c)
SatisfiesCheck(m, x, y) ==
    LET row == AsUsize(y)
        col == AsUsize(x)
    IN  /\ Clear_Of(m, row, col)
        /\ FSub(x, IntToF(col)) < lower_bound => Clear_Of(m, row, col - 1)
        /\ FSub(y, IntToF(row)) < lower_bound => Clear_Of(m, row - 1, col)
        /\ FSub(x, IntToF(col)) > upper_bound => Clear_Of(m, row, col + 1)
        /\ FSub(y, IntToF(row)) > upper_bound => Clear_Of(m, row + 1, col)

\* C21: on a grid with a solid border ring a player whose place satisfies the
\* collision check still satisfies it after any sequence of updates with any
\* inputs; the player never occupies a Solid cell and can_move_to never
\* indexes a tile outside the grid.
C21_CollisionCheckInvariant ==
    /\ HasSolidBorder(map)
    /\ SatisfiesCheck(map, player_x, player_y)
    /\ IsEmpty(map, AsUsize(player_y), AsUsize(player_x))
    /\ result # "panic"

\* a walk of MaxWalk updates that has left its start and whose last update
\* was stopped on one axis by the check
C21_Witness ==
    /\ frames = MaxWalk
    /\ last.valid
    /\ last.dx # 0
    /\ ~SatisfiesCheck(map, FAdd(last.x, last.dx), player_y)
    /\ player_x = last.x
    /\ <<player_x, player_y>> \notin WalkPlaces

\* C24: an update returns PushKillScreen exactly when ok_clicked is set, and
\* then leaves player_x, player_y and player_angle as they were; in every
\* other frame it returns Continue; it returns nothing else and never changes
\* the map or the draw batches.
C24_UpdateSignalsByResult ==
    [][/\ result' = "PushKillScreen" <=> inputs'.ok_clicked
       /\ inputs'.ok_clicked =>
             UNCHANGED <<player_x, player_y, player_angle>>
       /\ ~inputs'.ok_clicked => result' = "Continue"
       /\ UNCHANGED <<map, entries, loop>>]_vars

\* a frame with ok_clicked and movement keys held, after frames that moved
\* and turned the player
C24_Witness ==
    /\ frames = MaxWalk
    /\ inputs.ok_clicked
    /\ inputs.player_forward_down
    /\ result = "PushKillScreen"
    /\ player_angle \notin WalkHeadings
    /\ <<player_x, player_y>> \notin WalkPlaces

----------------------------------------------------------------------------
(* Level::new *)

\* the cells in which the random numbers of one Level::new put a wall: none,
\* or one cell at or around the start cell, or one far from it
NewWalls ==
    {{}} \cup {{Cell(r, c)} : r \in 18 .. 22, c \in 14 .. 18}
         \cup {{Cell(1, 1)}, {Cell(38, 30)}}

\* the tiles that create_random_row draws for row k of the map
NewRandom(walls) ==
    [k \in 1 .. 38 |-> [c \in 1 .. 30 |->
        IF Cell(k, c) \in walls THEN Solid(WallColor) ELSE Empty]]

InitNew ==
    /\ map = [tiles |-> <<>>, width |-> 0, height |-> 0]
    /\ InitLevelUnused
    /\ NoCast
    /\ NoUpdate
    /\ NoBatch
    /\ draw = NoDraw
    /\ NoHost

\* Level::new
LevelNew ==
    /\ eval.op = "none"
    /\ \E walls \in NewWalls :
          /\ map' = create_random_map(32, 40, NewRandom(walls))
          /\ eval' = [op |-> "Level::new", walls |-> walls]
    /\ player_x' = F32(165, 10)
    /\ player_y' = F32(205, 10)
    /\ player_angle' = 0
    /\ UNCHANGED <<castVars, updateVars, batchVars, draw, render, loop>>

\* the first Level::update of the new level
NewUpdate ==
    /\ eval.op = "Level::new"
    /\ frames = 0
    /\ \E in \in InputSnapshots : UpdateWith(in)

NextNew == LevelNew \/ NewUpdate

SpecNew == InitNew /\ [][NextNew]_vars

\* C22: whenever a Level has been built by Level::new (a 32 x 40 random map,
\* the player at (16.5, 20.5)) the player stands in an interior Empty cell
\* and the collision check accepts the start place.
C22_StartCellEmpty ==
    (eval.op = "Level::new" /\ frames = 0) =>
        /\ ~IsBorder(map.width, map.height, Cell(AsUsize(player_y), AsUsize(player_x)))
        /\ IsEmpty(map, AsUsize(player_y), AsUsize(player_x))
        /\ can_move_to(map, player_x, player_y) = "true"

\* what does hold: the start cell is the interior cell (20, 16) of a 32 x 40
\* map with a solid border, and it is Empty unless the random numbers put a
\* wall there; a player in a wall never moves
StartCellInterior ==
    eval.op = "Level::new" =>
        /\ map.width = 32 /\ map.height = 40
        /\ HasSolidBorder(map)
        /\ AsUsize(F32(205, 10)) = 20 /\ AsUsize(F32(165, 10)) = 16
        /\ IsEmpty(map, 20, 16) <=> Cell(20, 16) \notin eval.walls
        /\ Cell(20, 16) \in eval.walls =>
              (player_x = F32(165, 10) /\ player_y = F32(205, 10))

----------------------------------------------------------------------------
(* the walk of a cast, as its path records it *)

\* the way the ray points along each axis: 1, -1, or 0 along the other axis
ColumnSign(angle) ==
    IF angle < FRAC_PI_2 \/ angle > THREE_FRAC_PI_2 THEN 1
    ELSE IF angle = FRAC_PI_2 \/ angle = THREE_FRAC_PI_2 THEN 0 ELSE -1
RowSign(angle) ==
    IF angle = 0 \/ angle = PI THEN 0 ELSE IF angle < PI THEN 1 ELSE -1

\* step k of the walk goes to one of the four neighbours of its cell
StepAdjacent(p, k) ==
    \/ /\ p[k + 1].row = p[k].row
       /\ Abs(p[k + 1].column - p[k].column) = 1
    \/ /\ p[k + 1].column = p[k].column
       /\ Abs(p[k + 1].row - p[k].row) = 1

\* step k of the walk does not go against the ray on either axis
StepMonotone(p, k, angle) ==
    /\ (p[k + 1].column - p[k].column) * ColumnSign(angle) >= 0
    /\ (p[k + 1].row - p[k].row) * RowSign(angle) >= 0

\* C23: every step of the ray walk goes to exactly one 4-adjacent cell and
\* never against the sign of cos(angle) in the column or of sin(angle) in the
\* row; hence no cell is visited twice, the recorded path starts at the start
\* cell and ends at the hit cell, and the walk has at most width + height
\* steps.
C23_WalkAdjacentMonotone ==
    cast.pc # "idle" =>
        /\ \A k \in 1 .. Len(cast.path.cells) - 1 :
              /\ StepAdjacent(cast.path.cells, k)
              /\ StepMonotone(cast.path.cells, k, cast.angle)
        /\ \A j, k \in 1 .. Len(cast.path.cells) :
              cast.path.cells[j] = cast.path.cells[k] => j = k
        /\ cast.path.cells # <<>> =>
              cast.path.cells[1] = Cell(StartRow, StartColumn)
        /\ cast.pc = "some" =>
              cast.path.cells[Len(cast.path.cells)] = Cell(cast.row, cast.column)
        /\ Len(cast.path.cells) - 1 <= map.width + map.height

\* what does hold: every step goes to one of the four neighbours, the path
\* starts at the start cell and ends at the hit cell
WalkAdjacent ==
    cast.pc # "idle" =>
        /\ \A k \in 1 .. Len(cast.path.cells) - 1 :
              StepAdjacent(cast.path.cells, k)
        /\ cast.path.cells # <<>> =>
              cast.path.cells[1] = Cell(StartRow, StartColumn)
        /\ cast.pc = "some" =>
              cast.path.cells[Len(cast.path.cells)] = Cell(cast.row, cast.column)

\* a step against the ray: the walk came back to a cell it had left
WalkTurnsBack ==
    /\ cast.pc # "idle"
    /\ HasSolidBorder(map)
    /\ \E k \in 1 .. Len(cast.path.cells) - 1 :
          ~StepMonotone(cast.path.cells, k, cast.angle)
    /\ \E j, k \in 1 .. Len(cast.path.cells) :
          j # k /\ cast.path.cells[j] = cast.path.cells[k]

----------------------------------------------------------------------------
(* the StageManager under every SceneResult *)

MaxDepth == 3

\* enum SceneResult
SceneResults ==
    {"Continue", "Pop", "PopTwo", "PushMenu", "PushLevel", "ReloadLevel",
     "PushKillScreen", "PushPause"}
PushResults == {"PushLevel", "PushMenu", "PushKillScreen", "PushPause"}

\* StageManager::new; before and earlier are the manager before the latest
\* update and before the one before it, op and first the results of the two
InitStage ==
    /\ map = MakeMap(Width, Height, {}, {})
    /\ InitLevelUnused
    /\ NoCast
    /\ NoUpdate
    /\ NoBatch
    /\ draw = NoDraw
    /\ render = NoRender
    /\ loop = NoLoop
    /\ eval = [op |-> "new", first |-> "new", ok |-> TRUE,
               current |-> "Level", stack |-> <<>>,
               before |-> [current |-> "Level", stack |-> <<>>],
               earlier |-> [current |-> "Level", stack |-> <<>>]]

\* StageManager::update, the current scene returning r
StageStep ==
    /\ eval.ok
    /\ \E r \in SceneResults :
          /\ r \in PushResults => Len(eval.stack) < MaxDepth
          /\ \E to \in {StageUpdate(eval.current, eval.stack, r)} :
                eval' = [op |-> r, first |-> eval.op, ok |-> to.ok,
                         current |-> to.current, stack |-> to.stack,
                         before |-> [current |-> eval.current,
                                     stack |-> eval.stack],
                         earlier |-> eval.before]
    /\ UNCHANGED <<levelVars, castVars, updateVars, batchVars, draw, render, loop>>

NextStage == StageStep

SpecStage == InitStage /\ [][NextStage]_vars

\* C28: the scene stack is LIFO.  Each push result puts the scene that was
\* current on top of the stack, makes the depth one more and returns true;
\* Pop on a non-empty stack makes the former top current, makes the depth one
\* less and returns true, so that a push followed by a Pop restores the
\* earlier current scene and stack; Pop on an empty stack returns false and
\* leaves the current scene and the stack as they were.
C28_SceneStackLifo ==
    /\ eval.op \in PushResults =>
          /\ eval.ok
          /\ eval.stack = Append(eval.before.stack, eval.before.current)
          /\ Len(eval.stack) = Len(eval.before.stack) + 1
    /\ (eval.op = "Pop" /\ eval.before.stack # <<>>) =>
          /\ eval.ok
          /\ eval.current = eval.before.stack[Len(eval.before.stack)]
          /\ Len(eval.stack) = Len(eval.before.stack) - 1
          /\ eval.stack = SubSeq(eval.before.stack, 1, Len(eval.stack))
    /\ (eval.op = "Pop" /\ eval.first \in PushResults) =>
          /\ eval.current = eval.earlier.current
          /\ eval.stack = eval.earlier.stack
    /\ (eval.op = "Pop" /\ eval.before.stack = <<>>) =>
          /\ ~eval.ok
          /\ eval.current = eval.before.current
          /\ eval.stack = eval.before.stack

\* a kill screen was pushed over a menu over a level, and a Pop brought the
\* menu back with the level under it
C28_Witness ==
    /\ eval.op = "Pop"
    /\ eval.first = "PushKillScreen"
    /\ eval.before.current = "KillScreen"
    /\ eval.current = "Splash"
    /\ eval.stack = <<"Level">>
    /\ eval.ok

\* Pop on an empty stack ended the loop
PopOnEmptyStack ==
    /\ eval.op = "Pop"
    /\ eval.before.stack = <<>>
    /\ ~eval.ok

----------------------------------------------------------------------------
(* the StageManager under the scenes the program constructs *)

MaxScenes == 7

\* Level::update: the results it returns
LevelResults == {"Continue", "PushKillScreen"}

\* Scene::update of the current scene: the results it can return
SceneUpdateResults(current) ==
    IF current = "Level" THEN LevelResults ELSE MenuResults(current)

\* StageManager::update with the current scene's own update
SceneStep ==
    /\ eval.ok
    /\ \E r \in SceneUpdateResults(eval.current) :
          /\ r \in PushResults => Len(eval.stack) < MaxScenes
          /\ \E to \in {StageUpdate(eval.current, eval.stack, r)} :
                eval' = [op |-> r, first |-> eval.op, ok |-> to.ok,
                         current |-> to.current, stack |-> to.stack,
                         before |-> [current |-> eval.current,
                                     stack |-> eval.stack],
                         earlier |-> eval.before]
    /\ UNCHANGED <<levelVars, castVars, updateVars, batchVars, draw, render, loop>>

NextScenes == SceneStep

SpecScenes == InitStage /\ [][NextScenes]_vars

\* C29: with the scenes the program constructs (Level, the splash Menu, the
\* kill-screen Menu) no scene update returns Pop, PopTwo or ReloadLevel; so
\* the depth of the scene stack never decreases and StageManager::update
\* never returns false: the scene stack never ends the main loop.
C29_SceneStackNeverShrinks ==
    /\ eval.op \notin {"Pop", "PopTwo", "ReloadLevel"}
    /\ Len(eval.stack) >= Len(eval.before.stack)
    /\ Len(eval.before.stack) >= Len(eval.earlier.stack)
    /\ eval.ok
    /\ \A scene \in {"Splash", "KillScreen"} :
          MenuResults(scene) \subseteq {"Continue", "PushLevel", "PushMenu"}

\* the level, its kill screen, the splash menu by the kill screen's quit
\* button, the splash menu again by its cancel action and a new level by its
\* start button were stacked
C29_Witness ==
    /\ eval.stack = <<"Level", "KillScreen", "Splash", "Splash">>
    /\ eval.current = "Level"
    /\ eval.op = "PushLevel"
    /\ eval.first = "PushMenu"

----------------------------------------------------------------------------
(* UiButton *)

MaxButtonFrames == 4

\* a UiButton::update that does not ask where the mouse was released
button_update_AnyRelease(state, position, action, selected, in) ==
    IF state = "MouseClick"
    THEN IF in.mouse_button_left_down
         THEN [state |-> state, out |-> "None"]
         ELSE [state |-> "Normal", out |-> action]
    ELSE IF state = "GamepadClick"
    THEN IF in.ok_down
         THEN [state |-> state, out |-> "None"]
         ELSE [state |-> "Normal", out |-> action]
    ELSE IF selected /\ in.ok_down
    THEN [state |-> "GamepadClick", out |-> "None"]
    ELSE IF contains(position, in.mouse_position) /\ in.mouse_button_left_down
    THEN [state |-> "MouseClick", out |-> "None"]
    ELSE IF selected \/ contains(position, in.mouse_position)
    THEN [state |-> "Hover", out |-> "None"]
    ELSE [state |-> "Normal", out |-> "None"]

\* UiButton::update(selected, inputs, sounds): the state after it and what
\* it returns, Some(action) as the action and None as "None"
button_update(state, position, action, selected, in) ==
    IF state = "MouseClick"
    THEN IF in.mouse_button_left_down
         THEN [state |-> state, out |-> "None"]
         ELSE [state |-> "Normal",
               out |-> IF contains(position, in.mouse_position) THEN action
                       ELSE "None"]
    ELSE IF state = "GamepadClick"
    THEN IF in.ok_down
         THEN [state |-> state, out |-> "None"]
         ELSE [state |-> "Normal", out |-> action]
    ELSE IF selected /\ in.ok_down
    THEN [state |-> "GamepadClick", out |-> "None"]
    ELSE IF contains(position, in.mouse_position) /\ in.mouse_button_left_down
    THEN [state |-> "MouseClick", out |-> "None"]
    ELSE IF selected \/ contains(position, in.mouse_position)
    THEN [state |-> "Hover", out |-> "None"]
    ELSE [state |-> "Normal", out |-> "None"]

\* the start button of the splash menu
StartButton == Rect(60, 80, 394, 145)

\* the inputs a button reads: the mouse inside the button, on its corner and
\* outside it
ButtonInputs ==
    [mouse_position : {Point(100, 100), Point(454, 225), Point(455, 100)},
     mouse_button_left_down : BOOLEAN,
     ok_down : BOOLEAN]

\* UiButton::new; before is the state before the latest update, presses and
\* clicks count the presses begun and the clicks reported
InitButton ==
    /\ map = MakeMap(Width, Height, {}, {})
    /\ InitLevelUnused
    /\ NoCast
    /\ NoUpdate
    /\ NoBatch
    /\ draw = NoDraw
    /\ render = NoRender
    /\ loop = NoLoop
    /\ eval = [op |-> "new", state |-> "Normal", before |-> "Normal",
               out |-> "None", selected |-> FALSE,
               in |-> [mouse_position |-> Point(455, 100),
                       mouse_button_left_down |-> FALSE, ok_down |-> FALSE],
               frame |-> 0, presses |-> 0, clicks |-> 0]

\* one frame's UiButton::update
ButtonUpdate ==
    /\ eval.frame < MaxButtonFrames
    /\ \E selected \in BOOLEAN, in \in ButtonInputs :
       \E to \in {button_update(eval.state, StartButton, "level", selected, in)} :
          eval' = [op |-> "update", state |-> to.state, before |-> eval.state,
                   out |-> to.out, selected |-> selected, in |-> in,
                   frame |-> eval.frame + 1,
                   presses |-> IF /\ eval.state \notin {"MouseClick", "GamepadClick"}
                                  /\ to.state \in {"MouseClick", "GamepadClick"}
                               THEN eval.presses + 1 ELSE eval.presses,
                   clicks |-> IF to.out # "None" THEN eval.clicks + 1
                              ELSE eval.clicks]
    /\ UNCHANGED <<levelVars, castVars, updateVars, batchVars, draw, render, loop>>

NextButton == ButtonUpdate

SpecButton == InitButton /\ [][NextButton]_vars

\* the mouse was inside the button in the latest update
MouseInside ==
    /\ StartButton.x <= eval.in.mouse_position.x
    /\ eval.in.mouse_position.x <= StartButton.x + StartButton.w
    /\ StartButton.y <= eval.in.mouse_position.y
    /\ eval.in.mouse_position.y <= StartButton.y + StartButton.h

\* C30: a UiButton reports its action only on a release that follows a press:
\* only when the state before the update was MouseClick, the left button is
\* no longer down and the mouse is inside the button, or it was GamepadClick
\* and ok is no longer down; the state after a reported click is Normal, so a
\* press yields at most one click, no click is reported in the frame a press
\* begins, and a mouse press released outside the button reports nothing.
C30_ClickOnlyOnRelease ==
    /\ eval.out # "None" =>
          /\ eval.out = "level"
          /\ \/ /\ eval.before = "MouseClick"
                /\ ~eval.in.mouse_button_left_down
                /\ MouseInside
             \/ /\ eval.before = "GamepadClick"
                /\ ~eval.in.ok_down
          /\ eval.state = "Normal"
    /\ eval.clicks <= eval.presses
    /\ (/\ eval.before \notin {"MouseClick", "GamepadClick"}
        /\ eval.state \in {"MouseClick", "GamepadClick"}) => eval.out = "None"
    /\ (/\ eval.before = "MouseClick"
        /\ ~eval.in.mouse_button_left_down
        /\ ~MouseInside) =>
          /\ eval.out = "None"
          /\ eval.state = "Normal"

\* two presses, by the mouse and by ok, each ended in one click: the mouse
\* was released on the corner of the button
C30_Witness ==
    /\ eval.frame = 4
    /\ eval.presses = 2
    /\ eval.clicks = 2
    /\ eval.before = "MouseClick"
    /\ eval.in.mouse_position = Point(454, 225)
    /\ eval.out = "level"
    /\ eval.state = "Normal"

\* a mouse press was released outside the button
ReleasedOutside ==
    /\ eval.before = "MouseClick"
    /\ ~eval.in.mouse_button_left_down
    /\ ~MouseInside
    /\ eval.presses = 1
    /\ eval.clicks = 0

====
